---------------------------- MODULE Spec2Model ----------------------------
(***************************************************************************)
(* A model of the declarative tool-definition layer of ori-pluginapi:      *)
(* the YAML tool definition, its compilation to a flat JSON-schema-like    *)
(* parameter contract (ToToolDefinition), definition-time validation       *)
(* (ValidateYAMLToolDefinition) and the two call-time validators           *)
(* (ValidateToolParametersWithOperations, ValidateToolParameters).         *)
(***************************************************************************)
EXTENDS Integers, Sequences, FiniteSets, TLC

VARIABLES
    toolDef,    \* the *YAMLToolDefinition the API functions are applied to
                \* (pluginConfig.Tool of the BasePlugin that owns it)
    owner,      \* that BasePlugin: pluginConfig.Name and its metadata, and
                \* the definition ori-plugin-gen wrote the plugin's Call from
    lastCall,   \* "none" while the caller is between calls, else the name of
                \* the API function that has just returned
    params,     \* map[string]interface{} passed to the last call-time validator
    ret,        \* what the last call returned: [tool, err] (tool is Tool{} for
                \* the functions that return only an error)
    fileCall,   \* "none", or the file-type function that has just returned
    fileArgs,   \* the arguments of that call
    fileRet,    \* its return value
    impl,       \* the plugin implementation behind grpcServer.Impl: the
                \* interfaces it implements, what its methods return and the
                \* objects it owns
    rpcCall,    \* "none", or the dispatcher or proxy method that has returned
    rpcArgs,    \* the request of that call
    rpcRet,     \* what it returned
    invoked,    \* the plugin methods invoked while serving that call, in order
    hostState,  \* what the process reads from its surroundings: GOOS, GOARCH,
                \* the home directory and the environment
    expandCall, \* "none", or the expander function that has just returned
    expandArgs, \* the argument of that call
    expandRet,  \* what it returned
    disk,       \* the files of the agent directories: path -> document
    manager,    \* the settings manager the program holds (nil before one
                \* is created): its cache, file path and dirty flag
    settingsCall,   \* "none", or the settings function that has just returned
    settingsArgs,   \* the arguments of that call
    settingsRet,    \* what it returned, or that it panicked
    basePlugin, \* the BasePlugin: stored AgentDir (and the value a
                \* SetAgentContext is writing), metadata, settingsManager
                \* (0 is nil, else an index of heap), holder of settingsMu
    frames,     \* per goroutine: the statement of Settings() it is at, its
                \* locals, and the managers returned before it was called
    heap,       \* the settings managers created so far
    history,    \* whether a non-empty AgentDir was ever stored, and the
                \* managers Settings() has returned
    baseDisk,   \* the files of the agent directories the plugin runs in
    renderer,   \* the TemplateRenderer: its cache and its RWMutex
    renders,    \* per goroutine: the statement of RenderTemplate or
                \* ClearCache it is at and its locals
    activity,   \* per template name: the file reads, parses and cache
                \* stores since the last ClearCache
    templateFS  \* the embedded filesystem: template name -> content

toolVars == <<toolDef, owner, lastCall, params, ret>>
fileVars == <<fileCall, fileArgs, fileRet>>
rpcVars == <<impl, rpcCall, rpcArgs, rpcRet, invoked>>
expandVars == <<hostState, expandCall, expandArgs, expandRet>>
settingsVars == <<disk, manager, settingsCall, settingsArgs, settingsRet>>
baseVars == <<basePlugin, frames, heap, history, baseDisk>>
templateVars == <<renderer, renders, activity, templateFS>>
\* the variables the tool-definition functions never touch
notToolVars == <<fileVars, rpcVars, expandVars, settingsVars, baseVars, templateVars>>
\* the variables the file-type functions never touch
notFileVars == <<toolVars, rpcVars, expandVars, settingsVars, baseVars, templateVars>>
\* the variables the RPC layer never touches
notRpcVars == <<toolVars, fileVars, expandVars, settingsVars, baseVars, templateVars>>
\* the variables the config variable expander never touches
notExpandVars == <<toolVars, fileVars, rpcVars, settingsVars, baseVars, templateVars>>
\* the variables the settings manager never touches
notSettingsVars == <<toolVars, fileVars, rpcVars, expandVars, baseVars, templateVars>>
\* the variables BasePlugin never touches
notBaseVars == <<toolVars, fileVars, rpcVars, expandVars, settingsVars, templateVars>>
\* the variables the TemplateRenderer never touches
notTemplateVars ==
    <<toolVars, fileVars, rpcVars, expandVars, settingsVars, baseVars>>
vars ==
    <<toolVars, fileVars, rpcVars, expandVars, settingsVars, baseVars,
      templateVars>>

(***************************************************************************)
(* Bounds of the model.                                                    *)
(***************************************************************************)
MaxParams == 2      \* longest flat (base) parameter list explored
MaxOpParams == 2    \* longest per-operation parameter list explored
MaxNameLen == 3     \* longest filename explored, in bytes
MaxTypeLen == 2     \* longest accepted-type entry and media type, in bytes
MaxAccepted == 2    \* longest accepted-type list explored
MaxFiles == 3       \* longest attachment list explored
MaxPieces == 3      \* most pieces a template string is put together from
MaxVariables == 2   \* longest list of config variables explored
MaxGoroutines == 2  \* goroutines that call BasePlugin.Settings()
MaxManagers == 2    \* most settings managers created by one BasePlugin
MaxRenderers == 3   \* goroutines that use one TemplateRenderer
MaxReads == 2       \* RenderTemplate is not called for a name whose file was
                    \* read this often since the last ClearCache

----------------------------------------------------------------------------
(***************************************************************************)
(* Go values: error, interface{} and the YAML structs.                     *)
(***************************************************************************)

\* error: nil, or fmt.Errorf(msg)
NilError == [isNil |-> TRUE, msg |-> ""]
Errorf(m) == [isNil |-> FALSE, msg |-> m]

\* interface{} values, tagged with their dynamic Go type.  A float's num is
\* held in tenths (5 is 0.5), an int's num is the integer itself.
Nil == [kind |-> "nil", str |-> "", num |-> 0]
StrV(s) == [kind |-> "string", str |-> s, num |-> 0]
IntV(n) == [kind |-> "int", str |-> "", num |-> n]
Int64V(n) == [kind |-> "int64", str |-> "", num |-> n]
Float64V(tenths) == [kind |-> "float64", str |-> "", num |-> tenths]
Float32V(tenths) == [kind |-> "float32", str |-> "", num |-> tenths]
BoolV(b) == [kind |-> "bool", str |-> IF b THEN "true" ELSE "false", num |-> 0]

\* *float64 and *int fields of YAMLToolParameter
NilPtr == [isNil |-> TRUE, num |-> 0]
Ptr(n) == [isNil |-> FALSE, num |-> n]

\* Items *struct{Type string}
NilItems == [isNil |-> TRUE, Type |-> ""]
Items(t) == [isNil |-> FALSE, Type |-> t]

\* map[string]X with no keys
EmptyMap == <<>>

\* YAMLToolParameter with every optional field at its zero value
YAMLToolParameter(name, type, required, enum) ==
    [Name |-> name, Type |-> type, Description |-> "d", Required |-> required,
     Default |-> Nil, Enum |-> enum, Items |-> NilItems, Properties |-> EmptyMap,
     Min |-> NilPtr, Max |-> NilPtr, MinLength |-> NilPtr, MaxLength |-> NilPtr,
     Pattern |-> ""]

\* YAMLOperationDefinition
YAMLOperationDefinition(ps) == [Parameters |-> ps]

\* *YAMLToolDefinition; isNil marks the nil pointer
YAMLToolDefinition(name, desc, ps, ops) ==
    [isNil |-> FALSE, Name |-> name, Description |-> desc,
     Parameters |-> ps, Operations |-> ops]

NilToolDefinition ==
    [isNil |-> TRUE, Name |-> "", Description |-> "",
     Parameters |-> <<>>, Operations |-> EmptyMap]

\* Tool{} and Tool{Name, Description, Parameters}; a nil Parameters map is
\* marked by isNil
NilSchema == [isNil |-> TRUE]
EmptyTool == [Name |-> "", Description |-> "", Parameters |-> NilSchema]

----------------------------------------------------------------------------
(***************************************************************************)
(* Helpers over sequences.                                                 *)
(***************************************************************************)
Range(s) == {s[i] : i \in DOMAIN s}

SeqsUpTo(S, n) == UNION {[1..k -> S] : k \in 0..n}

\* index of the first element of s satisfying Test, 0 if none
FirstIndex(s, Test(_)) ==
    LET hits == {i \in DOMAIN s : Test(s[i])}
    IN  IF hits = {} THEN 0 ELSE CHOOSE i \in hits : \A j \in hits : i <= j

\* Go: fmt %q of a plain string
Quote(s) == "\"" \o s \o "\""

----------------------------------------------------------------------------
(***************************************************************************)
(* Call-time validation against the YAML definition.                      *)
(***************************************************************************)

containsString(list, value) == \E i \in DOMAIN list : list[i] = value

\* YAMLToolParameter{}
ZeroToolParameter ==
    [YAMLToolParameter("", "", FALSE, <<>>) EXCEPT !.Description = ""]

\* (param, found): the first parameter of the list with that name
findParameter(ps, name) ==
    LET i == FirstIndex(ps, LAMBDA p : p.Name = name)
    IN  IF i = 0
        THEN [param |-> ZeroToolParameter, found |-> FALSE]
        ELSE [param |-> ps[i], found |-> TRUE]

isMissingParam_NumericZero(param, args) ==
    \/ param.Name \notin DOMAIN args
    \/ args[param.Name].kind = "nil"
    \/ /\ param.Type = "string"
       /\ args[param.Name].kind = "string"
       /\ args[param.Name].str = ""
    \/ /\ param.Type \in {"integer", "number"}
       /\ args[param.Name].kind \in {"int", "int64", "float32", "float64"}
       /\ args[param.Name].num = 0

isMissingParam(param, args) ==
    IF param.Name \notin DOMAIN args THEN TRUE
    ELSE IF args[param.Name].kind = "nil" THEN TRUE
    ELSE IF param.Type = "string"
         THEN args[param.Name].kind = "string" /\ args[param.Name].str = ""
         ELSE FALSE

MissingError(name) == Errorf("required field '" \o name \o "' is missing")
UnknownOperationError(operation) == Errorf("unknown operation: " \o operation)

\* "for _, param := range toolDef.Parameters { if param.Required &&
\* isMissingParam(param, params) { return error } }": the first offender's error
requiredLoop(ps, args) ==
    LET i == FirstIndex(ps, LAMBDA p : p.Required /\ isMissingParam(p, args))
    IN  IF i = 0 THEN NilError ELSE MissingError(ps[i].Name)

\* the same loop with the guard param.Required && param.Name != "operation"
globalRequiredLoop(ps, args) ==
    LET i == FirstIndex(ps, LAMBDA p : /\ p.Required
                                      /\ p.Name # "operation"
                                      /\ isMissingParam(p, args))
    IN  IF i = 0 THEN NilError ELSE MissingError(ps[i].Name)

\* opDef, ok := toolDef.Operations[operation]: the zero value when absent
operationDefinition_FirstOperation(def, operation) ==
    def.Operations[CHOOSE n \in DOMAIN def.Operations : TRUE]

operationDefinition(def, operation) ==
    IF operation \in DOMAIN def.Operations THEN def.Operations[operation]
    ELSE YAMLOperationDefinition(<<>>)

\* lines 367-378: the operation is neither a key of the operations map nor a
\* member of a non-empty enum of the base "operation" parameter
isUnknownOperation_KeysOnly(def, operation) ==
    operation \notin DOMAIN def.Operations

isUnknownOperation(def, operation) ==
    LET op == findParameter(def.Parameters, "operation")
    IN  /\ operation \notin DOMAIN def.Operations
        /\ IF op.found /\ Len(op.param.Enum) > 0
           THEN ~containsString(op.param.Enum, operation)
           ELSE TRUE

\* lines 380-398: the global required parameters, then the operation's own
validateRequired_OperationFirst(def, opDef, args) ==
    LET own == requiredLoop(opDef.Parameters, args)
    IN  IF ~own.isNil THEN own ELSE globalRequiredLoop(def.Parameters, args)

validateRequired(def, opDef, args) ==
    LET global == globalRequiredLoop(def.Parameters, args)
    IN  IF ~global.isNil THEN global ELSE requiredLoop(opDef.Parameters, args)

ValidateToolParametersWithOperations(def, args) ==
    IF def.isNil THEN NilError
    ELSE IF DOMAIN def.Operations = {}
    THEN requiredLoop(def.Parameters, args)
    ELSE
      LET ok == "operation" \in DOMAIN args /\ args["operation"].kind = "string"
          operation == IF ok THEN args["operation"].str ELSE ""
      IN
      IF ~ok \/ operation = "" THEN MissingError("operation")
      ELSE IF isUnknownOperation(def, operation)
      THEN UnknownOperationError(operation)
      ELSE validateRequired(def, operationDefinition(def, operation), args)

----------------------------------------------------------------------------
(***************************************************************************)
(* The schema compiler.  A schema (map[string]interface{}) is a function   *)
(* from its keys; a function whose result depends on Go's map iteration    *)
(* order is modelled by the set of results it can return.                  *)
(***************************************************************************)

\* a key of a schema that is set only under a condition
Opt(cond, key, val) == IF cond THEN key :> val ELSE EmptyMap

\* Go: int(f) of a float64 held in tenths, truncating toward zero
FloatToInt(tenths) ==
    IF tenths >= 0 THEN tenths \div 10 ELSE -((-tenths) \div 10)

\* all orders in which a range over a map with key set S can visit the keys
Perms(S) == {s \in [1..Cardinality(S) -> S] : Range(s) = S}

SchemaOk(schema) == [schema |-> schema, err |-> NilError]
SchemaFail(m) == [schema |-> NilSchema, err |-> Errorf(m)]

UnsupportedType(t) ==
    "unsupported type: " \o t \o
    " (supported: string, integer, number, boolean, enum, array, object)"

\* the set of (schema, error) pairs buildParameterSchema can return
RECURSIVE buildParameterSchema(_, _)
buildParameterSchema(name, param) ==
    LET desc == Opt(param.Description # "", "description", param.Description)
        dflt == Opt(param.Default.kind # "nil", "default", param.Default)
    IN
    IF param.Type = "" THEN {SchemaFail("type is required")}
    ELSE IF param.Type = "string" THEN
        {SchemaOk(("type" :> "string") @@ desc @@ dflt
            @@ Opt(Len(param.Enum) > 0, "enum", param.Enum)
            @@ Opt(~param.MinLength.isNil, "minLength", IntV(param.MinLength.num))
            @@ Opt(~param.MaxLength.isNil, "maxLength", IntV(param.MaxLength.num))
            @@ Opt(param.Pattern # "", "pattern", param.Pattern))}
    ELSE IF param.Type = "integer" THEN
        {SchemaOk(("type" :> "integer") @@ desc @@ dflt
            @@ Opt(~param.Min.isNil, "minimum", IntV(FloatToInt(param.Min.num)))
            @@ Opt(~param.Max.isNil, "maximum", IntV(FloatToInt(param.Max.num))))}
    ELSE IF param.Type = "number" THEN
        {SchemaOk(("type" :> "number") @@ desc @@ dflt
            @@ Opt(~param.Min.isNil, "minimum", Float64V(param.Min.num))
            @@ Opt(~param.Max.isNil, "maximum", Float64V(param.Max.num)))}
    ELSE IF param.Type = "boolean" THEN
        {SchemaOk(("type" :> "boolean") @@ desc @@ dflt)}
    ELSE IF param.Type = "enum" THEN
        IF Len(param.Enum) = 0
        THEN {SchemaFail("enum type requires 'enum' field with values")}
        ELSE {SchemaOk(("type" :> "string") @@ desc
                @@ ("enum" :> param.Enum) @@ dflt)}
    ELSE IF param.Type = "array" THEN
        IF param.Items.isNil \/ param.Items.Type = ""
        THEN {SchemaFail("array type requires 'items' field with type")}
        ELSE {SchemaOk(("type" :> "array") @@ desc
                @@ ("items" :> [type |-> param.Items.Type]) @@ dflt)}
    ELSE IF param.Type = "object" THEN
        IF DOMAIN param.Properties = {}
        THEN {SchemaOk(("type" :> "object") @@ desc @@ dflt)}
        ELSE
          LET props == DOMAIN param.Properties
              nested == [k \in props |-> buildParameterSchema(k, param.Properties[k])]
              \* the range over param.Properties returns at the first property
              \* that fails, whichever the iteration reaches first
              failures ==
                  UNION {{SchemaFail("nested property " \o Quote(k) \o ": " \o o.err.msg) :
                            o \in {x \in nested[k] : ~x.err.isNil}} : k \in props}
              nestedRequired == {k \in props : param.Properties[k].Required}
              choices == {f \in [props -> UNION {nested[k] : k \in props}] :
                            \A k \in props : f[k] \in nested[k]}
          IN
          IF failures # {} THEN failures
          ELSE {SchemaOk(("type" :> "object") @@ desc
                    @@ ("properties" :> [k \in props |-> f[k].schema])
                    @@ Opt(nestedRequired # {}, "required", r) @@ dflt) :
                  f \in choices, r \in Perms(nestedRequired)}
    ELSE {SchemaFail(UnsupportedType(param.Type))}

\* (properties, required, err) of buildParametersSchema: the list is walked in
\* order, the first parameter that fails ends the walk
RECURSIVE buildParametersSchemaFrom(_, _, _, _)
buildParametersSchemaFrom(ps, i, properties, required) ==
    IF i > Len(ps)
    THEN {[properties |-> properties, required |-> required, err |-> NilError]}
    ELSE IF ps[i].Name = ""
    THEN {[properties |-> NilSchema, required |-> <<>>,
           err |-> Errorf("parameter name is required")]}
    ELSE UNION {
        IF ~o.err.isNil
        THEN {[properties |-> NilSchema, required |-> <<>>,
               err |-> Errorf("parameter " \o Quote(ps[i].Name) \o ": " \o o.err.msg)]}
        ELSE buildParametersSchemaFrom(ps, i + 1,
                (ps[i].Name :> o.schema) @@ properties,
                IF ps[i].Required THEN Append(required, ps[i].Name) ELSE required)
        : o \in buildParameterSchema(ps[i].Name, ps[i])}

buildParametersSchema(ps) == buildParametersSchemaFrom(ps, 1, EmptyMap, <<>>)

\* (all, err) of addParameterDefinitions: the first declaration of a name is
\* kept, a later one with another type is a conflict
RECURSIVE addParameterDefinitionsFrom(_, _, _)
addParameterDefinitionsFrom(all, ps, i) ==
    IF i > Len(ps) THEN [all |-> all, err |-> NilError]
    ELSE IF ps[i].Name = ""
    THEN [all |-> all, err |-> Errorf("parameter name is required")]
    ELSE IF ps[i].Name \in DOMAIN all
    THEN IF all[ps[i].Name].Type # ps[i].Type
         THEN [all |-> all,
               err |-> Errorf("parameter " \o Quote(ps[i].Name)
                              \o " has conflicting types: "
                              \o all[ps[i].Name].Type \o " vs " \o ps[i].Type)]
         ELSE addParameterDefinitionsFrom(all, ps, i + 1)
    ELSE addParameterDefinitionsFrom((ps[i].Name :> ps[i]) @@ all, ps, i + 1)

\* a plausible slip: a repeated name is skipped without comparing the types
addParameterDefinitions_NoTypeCheck(all, ps) ==
    LET empty == {i \in DOMAIN ps : ps[i].Name = ""}
        upto == IF empty = {} THEN Len(ps)
                ELSE (CHOOSE i \in empty : \A j \in empty : i <= j) - 1
        firstOf(n) == CHOOSE i \in 1..upto :
                        /\ ps[i].Name = n
                        /\ \A j \in 1..upto : ps[j].Name = n => i <= j
        new == {ps[i].Name : i \in 1..upto} \ DOMAIN all
    IN  [all |-> [n \in new |-> ps[firstOf(n)]] @@ all,
         err |-> IF empty = {} THEN NilError
                 ELSE Errorf("parameter name is required")]

addParameterDefinitions(all, ps) == addParameterDefinitionsFrom(all, ps, 1)

\* sort.Strings orders by bytes; StringOrder lists, in that order, the
\* strings that occur as operation names in the model
StringOrder == <<"", "echo", "other", "status", "unknown">>
StringIndex(x) == CHOOSE i \in DOMAIN StringOrder : StringOrder[i] = x
StringLess(a, b) == StringIndex(a) < StringIndex(b)

sortedOperationNames_Unsorted(operations) ==
    CHOOSE s \in Perms(DOMAIN operations) :
        \A i, j \in DOMAIN s : i < j => ~StringLess(s[i], s[j])

sortedOperationNames(operations) ==
    CHOOSE s \in Perms(DOMAIN operations) :
        \A i, j \in DOMAIN s : i < j => StringLess(s[i], s[j])

\* the operations' parameter lists added to all in the order of names
RECURSIVE addOperationsFrom(_, _, _, _)
addOperationsFrom(all, operations, names, i) ==
    IF i > Len(names) THEN [all |-> all, err |-> NilError]
    ELSE LET r == addParameterDefinitions(all, operations[names[i]].Parameters)
         IN  IF ~r.err.isNil THEN r
             ELSE addOperationsFrom(r.all, operations, names, i + 1)

ToolOk(def, schema) ==
    [tool |-> [Name |-> def.Name, Description |-> def.Description,
               Parameters |-> schema],
     err |-> NilError]
ToolFail(m) == [tool |-> EmptyTool, err |-> Errorf(m)]

\* "required" of the flattened schema: globalRequired plus "operation"
flattenedRequired_OperationOnly(def, globalRequired) == <<"operation">>

flattenedRequired(def, globalRequired) ==
    IF containsString(globalRequired, "operation") THEN globalRequired
    ELSE Append(globalRequired, "operation")

\* lines 64-75: (allParams, err), the union of the base list and of every
\* operation's list, the operations taken in sorted order
unionParameters_BaseOnly(def) == addParameterDefinitions(EmptyMap, def.Parameters)

unionParameters(def) ==
    LET base == addParameterDefinitions(EmptyMap, def.Parameters)
    IN  IF ~base.err.isNil THEN base
        ELSE addOperationsFrom(base.all, def.Operations,
                               sortedOperationNames(def.Operations), 1)

\* lines 77-81: the enum of "operation" derived from the operation names
deriveOperationEnum(allParams, operationNames) ==
    IF "operation" \in DOMAIN allParams /\ Len(allParams["operation"].Enum) = 0
    THEN [allParams EXCEPT !["operation"].Enum = operationNames]
    ELSE allParams

\* operation mode of ToToolDefinition, from "allParams := make(...)" on
ToToolDefinitionOperations(def) ==
    LET union == unionParameters(def)
        allParams == deriveOperationEnum(union.all,
                                         sortedOperationNames(def.Operations))
        names == DOMAIN allParams
        built == [n \in names |-> buildParameterSchema(n, allParams[n])]
        \* the range over allParams returns at the first parameter that
        \* fails, whichever the iteration reaches first
        failures ==
            UNION {{ToolFail("parameter " \o Quote(n) \o ": " \o o.err.msg) :
                      o \in {x \in built[n] : ~x.err.isNil}} : n \in names}
        choices == {f \in [names -> UNION {built[n] : n \in names}] :
                      \A n \in names : f[n] \in built[n]}
        global == buildParametersSchema(def.Parameters)
    IN
    IF ~union.err.isNil THEN {[tool |-> EmptyTool, err |-> union.err]}
    ELSE IF failures # {} THEN failures
    ELSE UNION {
        IF ~g.err.isNil THEN {[tool |-> EmptyTool, err |-> g.err]}
        ELSE IF "operation" \notin names
        THEN {ToolFail("operation parameter is required when operations are defined")}
        ELSE {ToolOk(def,
                ("type" :> "object")
                @@ ("properties" :> [n \in names |-> f[n].schema])
                @@ Opt(Len(flattenedRequired(def, g.required)) > 0,
                       "required", flattenedRequired(def, g.required))) :
              f \in choices}
        : g \in global}

\* the set of (Tool, error) pairs ToToolDefinition can return
ToToolDefinition(def) ==
    IF def.isNil THEN {ToolFail("tool definition is nil")}
    ELSE IF def.Name = "" THEN {ToolFail("tool name is required")}
    ELSE IF def.Description = "" THEN {ToolFail("tool description is required")}
    ELSE IF DOMAIN def.Operations = {}
    THEN {IF ~o.err.isNil THEN [tool |-> EmptyTool, err |-> o.err]
          ELSE ToolOk(def,
                ("type" :> "object") @@ ("properties" :> o.properties)
                @@ Opt(Len(o.required) > 0, "required", o.required)) :
          o \in buildParametersSchema(def.Parameters)}
    ELSE ToToolDefinitionOperations(def)

----------------------------------------------------------------------------
(***************************************************************************)
(* Call-time validation against a compiled schema.                         *)
(***************************************************************************)

\* schema == nil
SchemaIsNil(schema) == "isNil" \in DOMAIN schema

\* schema["properties"].(map[string]interface{}), nil (no keys) otherwise
extractProperties(schema) ==
    IF "properties" \in DOMAIN schema THEN schema["properties"] ELSE EmptyMap

\* schema["required"] as a []string, nil otherwise
extractRequired(schema) ==
    IF "required" \in DOMAIN schema THEN schema["required"] ELSE <<>>

isMissingValue(name, value, properties) ==
    IF value.kind = "nil" THEN TRUE
    ELSE
      LET prop == IF name \in DOMAIN properties THEN properties[name] ELSE EmptyMap
          paramType == IF "type" \in DOMAIN prop THEN prop["type"] ELSE ""
      IN
      IF paramType = "string"
      THEN IF value.kind = "string" THEN value.str = "" ELSE FALSE
      ELSE IF paramType \in {"integer", "number"}
      THEN IF value.kind \in {"float64", "float32", "int", "int64"}
           THEN value.num = 0
           ELSE FALSE
      ELSE FALSE

validateRequiredParams(required, properties, args) ==
    LET i == FirstIndex(required,
                 LAMBDA name : \/ name \notin DOMAIN args
                               \/ isMissingValue(name, args[name], properties))
    IN  IF i = 0 THEN NilError ELSE MissingError(required[i])

ValidateToolParameters(schema, args) ==
    IF SchemaIsNil(schema) THEN NilError
    ELSE validateRequiredParams(extractRequired(schema),
                                extractProperties(schema), args)

----------------------------------------------------------------------------
(***************************************************************************)
(* The definition a BasePlugin serves.                                     *)
(***************************************************************************)

\* *PluginMetadata as far as Definition reads it
NilDescribed == [isNil |-> TRUE, Name |-> "", Description |-> ""]
Described(name, description) ==
    [isNil |-> FALSE, Name |-> name, Description |-> description]

\* the BasePlugin around a definition: whether pluginConfig is set, its Name,
\* and the metadata; the definition is pluginConfig.Tool.  generated is the
\* definition in plugin.yaml when ori-plugin-gen wrote the Params struct and
\* the Call and Execute methods of the plugin, nil for a plugin without
\* generated code; nothing changes it at run time
Owner(configured, name, metadata) ==
    [configured |-> configured, Name |-> name, metadata |-> metadata,
     generated |-> NilToolDefinition]

\* if b.pluginConfig.Tool.Name == "" { b.pluginConfig.Tool.Name =
\* b.pluginConfig.Name }
namedDefinition(b, def) ==
    IF b.configured /\ ~def.isNil /\ def.Name = ""
    THEN [def EXCEPT !.Name = b.Name] ELSE def

\* what GetToolDefinition returns; a nil def is a config without a tool
GetToolDefinition(b, def) ==
    IF ~b.configured THEN {ToolFail("plugin config not set")}
    ELSE IF def.isNil THEN {ToolFail("no tool definition in plugin.yaml")}
    ELSE ToToolDefinition(namedDefinition(b, def))

\* Tool{Name, Description, Parameters: map[string]interface{}{}} from the
\* metadata
fallbackDefinition(b) ==
    [Name |-> IF ~b.metadata.isNil /\ b.metadata.Name # ""
              THEN b.metadata.Name ELSE "unknown-plugin",
     Description |-> IF ~b.metadata.isNil /\ b.metadata.Description # ""
                     THEN b.metadata.Description ELSE "Plugin integration",
     Parameters |-> EmptyMap]

\* the tools BasePlugin.Definition can return
Definition(b, def) ==
    {IF r.err.isNil THEN r.tool ELSE fallbackDefinition(b) :
        r \in GetToolDefinition(b, def)}

\* the metadata a plugin sets
Metadatas == {NilDescribed, Described("weather", "Weather")}

\* a BasePlugin with the config of plugin.yaml, and one without a config
Owners ==
    {Owner(TRUE, "weather", metadata) : metadata \in Metadatas}
    \cup {Owner(FALSE, "", metadata) : metadata \in Metadatas}

----------------------------------------------------------------------------
(***************************************************************************)
(* Definition-time validation.                                             *)
(***************************************************************************)
MaxToolNameLen == 64
MaxToolDescriptionLen == 1024

validTypes == {"string", "integer", "number", "boolean", "enum", "array", "object"}

\* fmt %v of a float64 held in tenths, and %d of an int
FormatFloat(tenths) ==
    LET a == IF tenths < 0 THEN -tenths ELSE tenths
    IN  (IF tenths < 0 THEN "-" ELSE "") \o ToString(a \div 10)
        \o (IF a % 10 = 0 THEN "" ELSE "." \o ToString(a % 10))
FormatInt(n) == ToString(n)

\* a validateParameter that accepts every parameter
validateParameter_AcceptsAll(name, param, prefix) == {NilError}

\* the set of errors validateParameter can return ({NilError} when it accepts)
RECURSIVE validateParameter(_, _, _)
validateParameter(name, param, prefix) ==
    LET fullName == IF prefix # "" THEN prefix \o "." \o name ELSE name
        P == "parameter " \o Quote(fullName) \o ": "
    IN
    IF param.Type \notin validTypes
    THEN {Errorf(P \o "invalid type " \o Quote(param.Type)
            \o " (must be one of: string, integer, number, boolean, enum, array, object)")}
    ELSE IF param.Description = ""
    THEN {Errorf(P \o "description is required")}
    ELSE IF param.Type = "enum" THEN
        IF Len(param.Enum) = 0
        THEN {Errorf(P \o "enum type requires 'enum' field with values")}
        ELSE IF param.Default.kind = "nil" THEN {NilError}
        ELSE IF param.Default.kind # "string"
        THEN {Errorf(P \o "enum default must be a string")}
        ELSE IF ~containsString(param.Enum, param.Default.str)
        THEN {Errorf(P \o "default value " \o Quote(param.Default.str)
                \o " is not in enum values")}
        ELSE {NilError}
    ELSE IF param.Type = "array" THEN
        IF param.Items.isNil \/ param.Items.Type = ""
        THEN {Errorf(P \o "array type requires 'items' field with type")}
        ELSE {NilError}
    ELSE IF param.Type = "object" THEN
        \* the range over param.Properties returns the error of the first
        \* property that fails, whichever the iteration reaches first
        LET failures ==
                UNION {{e \in validateParameter(k, param.Properties[k], fullName) :
                          ~e.isNil} : k \in DOMAIN param.Properties}
        IN  IF failures # {} THEN failures ELSE {NilError}
    ELSE IF param.Type \in {"integer", "number"} THEN
        IF ~param.Min.isNil /\ ~param.Max.isNil /\ param.Min.num > param.Max.num
        THEN {Errorf(P \o "min (" \o FormatFloat(param.Min.num)
                \o ") cannot be greater than max ("
                \o FormatFloat(param.Max.num) \o ")")}
        ELSE {NilError}
    ELSE IF param.Type = "string" THEN
        IF /\ ~param.MinLength.isNil /\ ~param.MaxLength.isNil
           /\ param.MinLength.num > param.MaxLength.num
        THEN {Errorf(P \o "min_length (" \o FormatInt(param.MinLength.num)
                \o ") cannot be greater than max_length ("
                \o FormatInt(param.MaxLength.num) \o ")")}
        ELSE {NilError}
    ELSE {NilError} \* boolean: the switch has no case for it

ConflictError(name, t1, t2) ==
    Errorf("parameter " \o Quote(name) \o " has conflicting types: "
           \o t1 \o " vs " \o t2)

\* the body shared by the two loops over a parameter list (lines 531-542 and
\* 574-585): (paramTypes, errs), errs empty when the whole list passes.
\* paramTypes keeps the type declared last for each name.
RECURSIVE validateParameterList(_, _, _)
validateParameterList(paramTypes, ps, i) ==
    IF i > Len(ps) THEN [paramTypes |-> paramTypes, errs |-> {}]
    ELSE IF ps[i].Name = ""
    THEN [paramTypes |-> paramTypes, errs |-> {Errorf("parameter name is required")}]
    ELSE
      LET failures == {e \in validateParameter(ps[i].Name, ps[i], "") : ~e.isNil}
      IN
      IF failures # {} THEN [paramTypes |-> paramTypes, errs |-> failures]
      ELSE IF ps[i].Name \in DOMAIN paramTypes /\ paramTypes[ps[i].Name] # ps[i].Type
      THEN [paramTypes |-> paramTypes,
            errs |-> {ConflictError(ps[i].Name, paramTypes[ps[i].Name], ps[i].Type)}]
      ELSE validateParameterList((ps[i].Name :> ps[i].Type) @@ paramTypes, ps, i + 1)

\* the loop over toolDef.Operations (lines 573-586) visiting them in order
RECURSIVE validateOperationLists(_, _, _, _)
validateOperationLists(paramTypes, operations, order, i) ==
    IF i > Len(order) THEN {}
    ELSE LET r == validateParameterList(paramTypes, operations[order[i]].Parameters, 1)
         IN  IF r.errs # {} THEN r.errs
             ELSE validateOperationLists(r.paramTypes, operations, order, i + 1)

\* lines 563-570: the operation names an explicit enum omits
operationEnumMissing_NoCheck(operations, enum) == {}

operationEnumMissing(operations, enum) ==
    IF Len(enum) > 0
    THEN {n \in DOMAIN operations : ~containsString(enum, n)}
    ELSE {}

\* lines 544-587, for a definition with operations
validateOperations(def, paramTypes) ==
    LET op == findParameter(def.Parameters, "operation")
        missing == operationEnumMissing(def.Operations, op.param.Enum)
        lists == UNION {validateOperationLists(paramTypes, def.Operations, order, 1) :
                          order \in Perms(DOMAIN def.Operations)}
    IN
    IF ~op.found
    THEN {Errorf("operation parameter is required when operations are defined")}
    ELSE IF op.param.Type # "string"
    THEN {Errorf("operation parameter must be type string")}
    ELSE IF ~op.param.Required
    THEN {Errorf("operation parameter must be required when operations are defined")}
    ELSE IF "" \in DOMAIN def.Operations
    THEN {Errorf("operation name cannot be empty")}
    ELSE IF missing # {}
    THEN {Errorf("operation parameter enum missing value " \o Quote(n)) : n \in missing}
    ELSE IF lists # {} THEN lists
    ELSE {NilError}

\* the set of errors ValidateYAMLToolDefinition can return
ValidateYAMLToolDefinition(def) ==
    IF def.isNil THEN {Errorf("tool definition cannot be nil")}
    ELSE IF def.Name = "" THEN {Errorf("tool.name is required")}
    ELSE IF Len(def.Name) > MaxToolNameLen
    THEN {Errorf("tool.name must be 64 characters or less (got "
            \o FormatInt(Len(def.Name)) \o ")")}
    ELSE IF def.Description = "" THEN {Errorf("tool.description is required")}
    ELSE IF Len(def.Description) > MaxToolDescriptionLen
    THEN {Errorf("tool.description must be 1024 characters or less (got "
            \o FormatInt(Len(def.Description)) \o ")")}
    ELSE IF Len(def.Parameters) = 0 /\ DOMAIN def.Operations = {}
    THEN {Errorf("tool must have at least one parameter")}
    ELSE
      LET base == validateParameterList(EmptyMap, def.Parameters, 1)
      IN  IF base.errs # {} THEN base.errs
          ELSE IF DOMAIN def.Operations # {}
          THEN validateOperations(def, base.paramTypes)
          ELSE {NilError}

----------------------------------------------------------------------------
(***************************************************************************)
(* The Call method that ori-plugin-gen generates for a plugin.             *)
(***************************************************************************)

\* addParam over the parameters in turn: a name declared twice gives one
\* field, and two types for one name or an empty name stop the generator
RECURSIVE addParam(_, _)
addParam(ordered, rest) ==
    IF rest = <<>> THEN [params |-> ordered, err |-> NilError]
    ELSE LET param == Head(rest)
             i == FirstIndex(ordered, LAMBDA p : p.Name = param.Name)
         IN  IF param.Name = ""
             THEN [params |-> <<>>, err |-> Errorf("parameter name is required")]
             ELSE IF i # 0
             THEN IF ordered[i].Type # param.Type
                  THEN [params |-> <<>>,
                        err |-> Errorf("parameter " \o Quote(param.Name)
                                       \o " has conflicting types: "
                                       \o ordered[i].Type \o " vs " \o param.Type)]
                  ELSE addParam(ordered, Tail(rest))
             ELSE addParam(Append(ordered, param), Tail(rest))

\* the operations' parameter lists one after the other, from names[i] on
RECURSIVE operationParameters(_, _, _)
operationParameters(operations, names, i) ==
    IF i > Len(names) THEN <<>>
    ELSE operations[names[i]].Parameters
         \o operationParameters(operations, names, i + 1)

\* the parameters that become the fields of Params: the base list, then the
\* operations' lists in the order of the operations' names
collectParameters(tool) ==
    IF tool.isNil
    THEN [params |-> <<>>, err |-> Errorf("tool definition is nil")]
    ELSE addParam(<<>>, tool.Parameters
                        \o operationParameters(tool.Operations,
                               sortedOperationNames(tool.Operations), 1))

yamlTypeToGoType(yamlType) ==
    CASE yamlType = "string" -> "string"
      [] yamlType = "integer" -> "int"
      [] yamlType = "number" -> "float64"
      [] yamlType = "boolean" -> "bool"
      [] yamlType = "array" -> "[]interface{}"
      [] yamlType = "object" -> "map[string]interface{}"
      [] OTHER -> "interface{}"

\* the generator has written a Call for the definition, and the file
\* compiles: Execute reads params.Operation as the key of a map of strings
Generated(tool) ==
    /\ collectParameters(tool).err.isNil
    /\ DOMAIN tool.Operations # {} =>
          \E p \in Range(collectParameters(tool).params) :
              p.Name = "operation" /\ yamlTypeToGoType(p.Type) = "string"

\* a value in the text of the arguments: a JSON number has no Go type
JSONValue(kind, str, tenths) == [kind |-> kind, str |-> str, num |-> tenths]

\* json.Marshal of a Go value, as the host writes the arguments
MarshalArgument(v) ==
    CASE v.kind \in {"int", "int64"} -> JSONValue("number", "", 10 * v.num)
      [] v.kind \in {"float64", "float32"} -> JSONValue("number", "", v.num)
      [] v.kind = "string" -> JSONValue("string", v.str, 0)
      [] v.kind = "bool" -> JSONValue("bool", v.str, 0)
      [] OTHER -> JSONValue("null", "", 0)

\* the args string of a Call: an object whose members are written in some
\* order, null, or text that is not JSON
ObjectText(args, order) ==
    [kind |-> "object",
     members |-> [k \in DOMAIN args |-> MarshalArgument(args[k])],
     order |-> order]
NullText == [kind |-> "null", members |-> EmptyMap, order |-> <<>>]
InvalidText == [kind |-> "invalid", members |-> EmptyMap, order |-> <<>>]

\* json.Unmarshal of a JSON value into interface{}
UnmarshalArgument(j) ==
    CASE j.kind = "number" -> Float64V(j.num)
      [] j.kind = "string" -> StrV(j.str)
      [] j.kind = "bool" -> BoolV(j.str = "true")
      [] OTHER -> Nil

\* json.Unmarshal([]byte(args), &paramsMap); null leaves the map nil, which
\* reads as an empty one
UnmarshalArguments(text) ==
    IF text.kind = "invalid"
    THEN [map |-> EmptyMap, err |-> Errorf("unexpected end of JSON input")]
    ELSE [map |-> [k \in DOMAIN text.members |-> UnmarshalArgument(text.members[k])],
          err |-> NilError]

\* json.Unmarshal of a JSON value into a field of the Go type succeeds
fits(goType, j) ==
    \/ j.kind = "null"
    \/ goType = "interface{}"
    \/ goType = "string" /\ j.kind = "string"
    \/ goType = "int" /\ j.kind = "number" /\ j.num % 10 = 0
    \/ goType = "float64" /\ j.kind = "number"
    \/ goType = "bool" /\ j.kind = "bool"

\* the Value of the UnmarshalTypeError
mismatchedValue(goType, j) ==
    IF j.kind = "number" /\ goType = "int"
    THEN "number " \o FormatFloat(j.num) ELSE j.kind

\* reflect's Type.String() of a field's type, as UnmarshalTypeError prints it
typeString(goType) ==
    CASE goType = "[]interface{}" -> "[]interface {}"
      [] goType = "map[string]interface{}" -> "map[string]interface {}"
      [] goType = "interface{}" -> "interface {}"
      [] OTHER -> goType

\* json.Unmarshal([]byte(args), &params): the Operation field and the first
\* member, in the order of the text, that its field cannot hold
UnmarshalParams(fields, text) ==
    LET goType(k) == yamlTypeToGoType(
                        fields[FirstIndex(fields, LAMBDA p : p.Name = k)].Type)
        isField(k) == FirstIndex(fields, LAMBDA p : p.Name = k) # 0
        i == FirstIndex(text.order,
                        LAMBDA k : /\ isField(k)
                                   /\ ~fits(goType(k), text.members[k]))
        k == text.order[i]
    IN  [Operation |-> IF /\ "operation" \in DOMAIN text.members
                          /\ isField("operation")
                          /\ text.members["operation"].kind = "string"
                          /\ goType("operation") = "string"
                       THEN text.members["operation"].str ELSE "",
         err |-> IF i = 0 THEN NilError
                 ELSE Errorf("json: cannot unmarshal "
                             \o mismatchedValue(goType(k), text.members[k])
                             \o " into Go struct field Params." \o k
                             \o " of type " \o typeString(goType(k)))]

\* the names of the operations, ", " between them
RECURSIVE joinOperationNames(_, _)
joinOperationNames(names, i) ==
    IF i > Len(names) THEN ""
    ELSE (IF i > 1 THEN ", " ELSE "") \o names[i]
         \o joinOperationNames(names, i + 1)

\* what a handler written for the plugin can return
HandlerResults == {NilError, Errorf("handler failed")}

\* Execute: the handler registered for params.Operation, and the plugin's
\* own Execute when the definition has no operations
ToolExecute(tool, operation, result) ==
    IF DOMAIN tool.Operations # {} /\ operation \notin DOMAIN tool.Operations
    THEN Errorf("unknown operation: " \o operation \o ". Valid operations: "
                \o joinOperationNames(sortedOperationNames(tool.Operations), 1))
    ELSE result

----------------------------------------------------------------------------
(***************************************************************************)
(* The definitions and call arguments the model explores.                  *)
(***************************************************************************)

\* parameters named "operation"
opPlain == YAMLToolParameter("operation", "string", TRUE, <<>>)
opEnumFull == YAMLToolParameter("operation", "string", TRUE, <<"echo", "status">>)
opEnumPartial == YAMLToolParameter("operation", "string", TRUE, <<"echo">>)
opEnumOther == YAMLToolParameter("operation", "string", TRUE, <<"other", "echo">>)
opInteger == YAMLToolParameter("operation", "integer", TRUE, <<>>)
opOptional == YAMLToolParameter("operation", "string", FALSE, <<>>)
opEnumType == YAMLToolParameter("operation", "enum", TRUE, <<>>)
opEnumTypeOther == YAMLToolParameter("operation", "enum", TRUE, <<"other", "echo">>)

\* other parameters
messageString == YAMLToolParameter("message", "string", TRUE, <<>>)
messageOptional == YAMLToolParameter("message", "string", FALSE, <<>>)
messageInteger == YAMLToolParameter("message", "integer", TRUE, <<>>)
messageEnum == YAMLToolParameter("message", "enum", TRUE, <<"hi">>)
countInteger == YAMLToolParameter("count", "integer", TRUE, <<>>)
countNumber == YAMLToolParameter("count", "number", TRUE, <<>>)
countBoolean == YAMLToolParameter("count", "boolean", TRUE, <<>>)
countOptional == YAMLToolParameter("count", "integer", FALSE, <<>>)

\* malformed parameters
emptyName == YAMLToolParameter("", "string", TRUE, <<>>)
noDescription == [messageOptional EXCEPT !.Description = ""]
noType == YAMLToolParameter("count", "", FALSE, <<>>)
badType == YAMLToolParameter("count", "float", FALSE, <<>>)
enumNoValues == YAMLToolParameter("count", "enum", FALSE, <<>>)
arrayNoItems == YAMLToolParameter("count", "array", FALSE, <<>>)

\* parameters that use the optional fields
arrayOfStrings == [arrayNoItems EXCEPT !.Items = Items("string")]
arrayEmptyItems == [arrayNoItems EXCEPT !.Items = Items("")]
integerRange == [countInteger EXCEPT !.Min = Ptr(15), !.Max = Ptr(1000),
                                     !.Default = IntV(10)]
integerBadRange == [countInteger EXCEPT !.Min = Ptr(25), !.Max = Ptr(15)]
numberRange == [countNumber EXCEPT !.Min = Ptr(-15), !.Max = Ptr(15)]
stringLengths == [messageString EXCEPT !.MinLength = Ptr(1), !.MaxLength = Ptr(8),
                                       !.Pattern = "^h", !.Default = StrV("hi")]
stringBadLengths == [messageString EXCEPT !.MinLength = Ptr(9), !.MaxLength = Ptr(8)]
booleanBadLengths == [countBoolean EXCEPT !.MinLength = Ptr(9), !.MaxLength = Ptr(8)]
enumDefault == [messageEnum EXCEPT !.Default = StrV("hi")]
enumBadDefault == [messageEnum EXCEPT !.Default = StrV("ho")]
enumIntDefault == [messageEnum EXCEPT !.Default = IntV(1)]
objectEmpty == YAMLToolParameter("message", "object", TRUE, <<>>)
objectGood ==
    [objectEmpty EXCEPT !.Properties =
        [k \in {"message", "count"} |->
            IF k = "message" THEN messageString ELSE countInteger]]
objectBad ==
    [objectEmpty EXCEPT !.Properties =
        [k \in {"message", "count"} |->
            IF k = "message" THEN noDescription ELSE enumNoValues]]
objectNested ==
    [objectEmpty EXCEPT !.Properties = [k \in {"message"} |-> objectBad]]

\* strings of the lengths at which the name and description checks change
RECURSIVE Doubled(_, _)
Doubled(str, times) == IF times = 0 THEN str ELSE Doubled(str \o str, times - 1)
Name64 == Doubled("n", 6)
Description1024 == Doubled("d", 10)

Op(ps) == YAMLOperationDefinition(ps)

\* maps over the operation names "echo" and "status"
OperationMaps(echoLists, statusLists) ==
    {EmptyMap}
    \cup {[n \in {"echo"} |-> Op(e)] : e \in echoLists}
    \cup {[n \in {"echo", "status"} |-> IF n = "echo" THEN Op(e) ELSE Op(t)] :
            e \in echoLists, t \in statusLists}

Family(bases, operationMaps) ==
    {YAMLToolDefinition("tool", "test", b, o) : b \in bases, o \in operationMaps}

\* definitions for the call-time validators: required and optional parameters
\* in the base list and in the operations' lists
ValidatorDefinitions ==
    Family(SeqsUpTo({opPlain, opEnumOther, messageString, countInteger}, MaxParams),
           OperationMaps(SeqsUpTo({messageString, countInteger, messageOptional},
                                  MaxOpParams),
                         {<<>>, <<countNumber>>})
           \cup {[n \in {"", "echo"} |-> Op(<<>>)]})

\* flat definitions over every parameter type
TypeDefinitions ==
    Family(SeqsUpTo({messageString, messageEnum, messageOptional, countInteger,
                     countNumber, countBoolean}, MaxParams),
           {EmptyMap})

\* definitions for the compiler and the definition-time validation: well and
\* badly formed parameters, repeated names, explicit and absent enums
CompilerDefinitions ==
    Family(SeqsUpTo({opPlain, opEnumFull, opEnumPartial, opInteger, opOptional,
                     messageString, messageInteger, countOptional,
                     emptyName, enumNoValues}, MaxParams),
           OperationMaps({<<>>, <<messageString>>, <<messageInteger>>},
                         {<<>>, <<messageInteger>>, <<opPlain>>, <<emptyName>>})
           \cup {[n \in {"", "echo"} |-> Op(<<>>)],
                 [n \in {"echo", "other", "status"} |-> Op(<<>>)]})

\* definitions that use the optional fields of a parameter
FieldDefinitions ==
    Family({<<p>> : p \in {noDescription, noType, badType, arrayNoItems,
                    arrayOfStrings, arrayEmptyItems, integerRange, integerBadRange,
                    numberRange, stringLengths, stringBadLengths, booleanBadLengths,
                    enumDefault,
                    enumBadDefault, enumIntDefault, objectEmpty, objectGood,
                    objectBad, objectNested}}
           \cup {<<opPlain, p>> : p \in {integerRange, objectGood, objectBad}}
           \cup {<<opEnumType>>, <<opEnumTypeOther>>},
           {EmptyMap, [n \in {"echo"} |-> Op(<<>>)],
            [n \in {"echo"} |-> Op(<<objectGood>>)],
            [n \in {"echo"} |-> Op(<<opEnumType>>)]})

\* definitions whose name and description are absent, at and over the limits
HeaderDefinitions ==
    {YAMLToolDefinition(n, d, b, o) :
        n \in {"", "tool", Name64, Name64 \o "n"},
        d \in {"", "test", Description1024, Description1024 \o "d"},
        b \in {<<>>, <<messageString>>, <<opPlain, messageString>>},
        o \in {EmptyMap, [k \in {"echo"} |-> Op(<<messageInteger>>)]}}
    \cup {NilToolDefinition}

Definitions ==
    ValidatorDefinitions \cup TypeDefinitions \cup CompilerDefinitions
    \cup FieldDefinitions \cup HeaderDefinitions

\* a map[string]interface{} with the given keys absent or bound to a value
Absent == [kind |-> "absent", str |-> "", num |-> 0]
ArgumentMaps(operations, messages, counts) ==
    {[k \in {n \in {"operation", "message", "count"} :
                (IF n = "operation" THEN o ELSE IF n = "message" THEN m ELSE c)
                    # Absent}
        |-> IF k = "operation" THEN o ELSE IF k = "message" THEN m ELSE c] :
     o \in operations, m \in messages, c \in counts}

\* the arguments a host sends to the generated Call
CallTexts ==
    UNION {{ObjectText(args, order) : order \in Perms(DOMAIN args)} :
        args \in ArgumentMaps({Absent, StrV("echo"), StrV("unknown"), IntV(0)},
                              {Absent, StrV(""), StrV("hi")},
                              {Absent, IntV(0), Float64V(5), StrV("")})}
    \cup {NullText, InvalidText}

\* the plugin.yaml configurations a plugin sets: nil, and a name with a tool
NilConfig == [isNil |-> TRUE, Name |-> "", Tool |-> NilToolDefinition]
Config(name, tool) == [isNil |-> FALSE, Name |-> name, Tool |-> tool]
ConfigNames == {"weather"}
ConfigTools ==
    {NilToolDefinition,
     YAMLToolDefinition("", "test", <<messageString>>, EmptyMap),
     YAMLToolDefinition("tool", "", <<messageString>>, EmptyMap),
     YAMLToolDefinition("tool", "test", <<opPlain, countInteger>>,
                        [n \in {"echo"} |-> Op(<<>>)])}
Configs ==
    {Config(name, tool) : name \in ConfigNames, tool \in ConfigTools}
    \cup {NilConfig}

\* the definitions of the plugins whose Call ori-plugin-gen has written
GeneratedDefinitions ==
    FieldDefinitions
    \cup {YAMLToolDefinition(n, d, b, EmptyMap) :
            n \in {"", "tool"}, d \in {"", "test"},
            b \in {<<>>, <<messageString>>, <<opPlain, messageString>>}}

Arguments ==
    ArgumentMaps({Absent, Nil, IntV(0), StrV(""), StrV("echo"), StrV("status"),
                  StrV("other"), StrV("unknown")},
                 {Absent, Nil, StrV(""), StrV("hi")},
                 {Absent, IntV(0), IntV(1)})
    \cup
    ArgumentMaps({Absent, StrV("echo")},
                 {Absent, StrV(""), StrV("hi"), IntV(0)},
                 {Absent, Nil, IntV(0), Int64V(0), Float64V(0), Float32V(0),
                  Float64V(5), BoolV(FALSE), StrV("")})

----------------------------------------------------------------------------
(***************************************************************************)
(* File-type acceptance.  A Go string is a sequence of bytes; a byte is    *)
(* written as a one-character string, so "a.W" is <<"a", ".", "W">>.       *)
(***************************************************************************)
UpperLetters ==
    <<"A", "B", "C", "D", "E", "F", "G", "H", "I", "J", "K", "L", "M",
      "N", "O", "P", "Q", "R", "S", "T", "U", "V", "W", "X", "Y", "Z">>
LowerLetters ==
    <<"a", "b", "c", "d", "e", "f", "g", "h", "i", "j", "k", "l", "m",
      "n", "o", "p", "q", "r", "s", "t", "u", "v", "w", "x", "y", "z">>

\* c += 'a' - 'A' for c in 'A'..'Z'
toLowerByte(c) ==
    IF \E i \in DOMAIN UpperLetters : UpperLetters[i] = c
    THEN LowerLetters[CHOOSE i \in DOMAIN UpperLetters : UpperLetters[i] = c]
    ELSE c

toLower(s) == [i \in 1..Len(s) |-> toLowerByte(s[i])]

lastIndex_First(s, c) ==
    IF \E i \in 1..Len(s) : s[i] = c
    THEN (CHOOSE i \in 1..Len(s) : s[i] = c /\ \A j \in 1..(i - 1) : s[j] # c) - 1
    ELSE -1

\* the 0-based index of the last byte c of s, -1 when there is none
lastIndex(s, c) ==
    IF \E i \in 1..Len(s) : s[i] = c
    THEN (CHOOSE i \in 1..Len(s) :
            s[i] = c /\ \A j \in (i + 1)..Len(s) : s[j] # c) - 1
    ELSE -1

\* s[idx:]
SliceFrom(s, idx) == SubSeq(s, idx + 1, Len(s))

IsFileTypeAccepted(acceptedTypes, filename, mimeType) ==
    IF Len(acceptedTypes) = 0 THEN FALSE
    ELSE
      LET idx == lastIndex(filename, ".")
          ext == IF idx >= 0 THEN toLower(SliceFrom(filename, idx)) ELSE <<>>
          mime == toLower(mimeType)
      IN  \E i \in 1..Len(acceptedTypes) :
            LET accepted == toLower(acceptedTypes[i])
            IN  IF Len(accepted) > 0 /\ accepted[1] = "."
                THEN ext = accepted
                ELSE mime = accepted

FileAttachment(name, type, size, content) ==
    [Name |-> name, Type |-> type, Size |-> size, Content |-> content]

FilterFilesByAcceptedTypes_ByName(files, acceptedTypes) ==
    SelectSeq(files, LAMBDA f : IsFileTypeAccepted(acceptedTypes, f.Name, <<>>))

\* a nil slice and an empty one are both the empty sequence
FilterFilesByAcceptedTypes(files, acceptedTypes) ==
    IF Len(acceptedTypes) = 0 THEN <<>>
    ELSE SelectSeq(files,
                   LAMBDA f : IsFileTypeAccepted(acceptedTypes, f.Name, f.Type))

\* the strings of at most n bytes over an alphabet
Strings(alphabet, n) == SeqsUpTo(alphabet, n)

Filenames == Strings({".", "w", "W"}, MaxNameLen)
TypeEntries == Strings({".", "w", "W"}, MaxTypeLen)
MimeTypes == Strings({".", "w", "W"}, MaxTypeLen)
AcceptedLists == SeqsUpTo(TypeEntries, MaxAccepted)

\* attachments told apart by size and content as well as by name and type
Attachments ==
    {FileAttachment(<<"w", ".", "W">>, <<"w">>, 1, <<1>>),
     FileAttachment(<<"w", ".", "W">>, <<"w">>, 2, <<>>),
     FileAttachment(<<"W">>, <<"W", ".">>, 0, <<>>),
     FileAttachment(<<".", "w", ".">>, <<>>, 3, <<0, 1>>)}
AttachmentLists == SeqsUpTo(Attachments, MaxFiles)
FilterLists ==
    SeqsUpTo({<<>>, <<".">>, <<".", "w">>, <<"W">>, <<"w", ".">>}, MaxAccepted)

NoFileArgs == [acceptedTypes |-> <<>>]
FilesIdle ==
    /\ fileCall = "none"
    /\ fileArgs = NoFileArgs
    /\ fileRet = FALSE

ToolIdle ==
    /\ toolDef = NilToolDefinition
    /\ owner = Owner(FALSE, "", NilDescribed)
    /\ lastCall = "none"
    /\ params = EmptyMap
    /\ ret = [tool |-> EmptyTool, err |-> NilError]

----------------------------------------------------------------------------
(***************************************************************************)
(* The RPC layer: the plugin implementation, the server dispatcher         *)
(* (grpcServer) and the client proxy (grpcClient).                         *)
(***************************************************************************)
\* the optional interfaces a plugin may implement besides PluginTool
Capabilities ==
    {"VersionedTool", "AgentAwareTool", "DefaultSettingsProvider",
     "InitializationProvider", "MetadataProvider", "PluginCompatibility",
     "WebPageProvider", "OperationsProvider", "FileAttachmentHandler"}

\* s.Impl.(I): a type with the methods of PluginCompatibility also has those
\* of VersionedTool
Implements(plugin, interface) ==
    \/ interface \in plugin.implements
    \/ interface = "VersionedTool" /\ "PluginCompatibility" \in plugin.implements

\* what a plugin method returns: (result, err)
Outcome(result, err) == [result |-> result, err |-> err]

NoAgentContext ==
    [Name |-> "", ConfigPath |-> "", SettingsPath |-> "", AgentDir |-> "",
     CurrentLocation |-> ""]

\* *PluginMetadata: nil, or the object the plugin owns
NilMetadata == [isNil |-> TRUE, Name |-> "", Tags |-> <<>>]
PluginMetadata(name, tags) == [isNil |-> FALSE, Name |-> name, Tags |-> tags]

\* BasePlugin.GetTags
GetTags(plugin) ==
    IF Len(plugin.configTags) > 0 THEN plugin.configTags
    ELSE IF plugin.metadata.isNil THEN <<>>
    ELSE plugin.metadata.Tags

\* one invocation of a plugin method by the dispatcher
Invocation(method, args, files) ==
    [method |-> method, args |-> args, files |-> files]

\* what a dispatcher method hands back: the response message, the transport
\* error, the plugin afterwards and the plugin methods it invoked
Served(resp, err, plugin, calls) ==
    [resp |-> resp, err |-> err, impl |-> plugin, invoked |-> calls]

NilResponse == [isNil |-> TRUE]

CallResponse(resultJson, error) ==
    [ResultJson |-> resultJson, Error |-> error]

CallResponseOf_KeepsResult(outcome) ==
    IF ~outcome.err.isNil THEN CallResponse(outcome.result, outcome.err.msg)
    ELSE CallResponse(outcome.result, "")

\* &CallResponse{Error: err.Error()} or &CallResponse{ResultJson: result}
CallResponseOf(outcome) ==
    IF ~outcome.err.isNil THEN CallResponse("", outcome.err.msg)
    ELSE CallResponse(outcome.result, "")

ServerCall(plugin, req) ==
    Served(CallResponseOf(plugin.call[req.ArgsJson]), NilError, plugin,
           <<Invocation("Call", req.ArgsJson, <<>>)>>)

ServerCallWithFiles_NoFallback(plugin, req) ==
    IF Implements(plugin, "FileAttachmentHandler")
    THEN Served(CallResponseOf(plugin.callWithFiles[req.ArgsJson]), NilError,
                plugin,
                <<Invocation("CallWithFiles", req.ArgsJson, req.Files)>>)
    ELSE Served(CallResponse("", "plugin does not implement FileAttachmentHandler"),
                NilError, plugin, <<>>)

ServerCallWithFiles(plugin, req) ==
    IF Implements(plugin, "FileAttachmentHandler")
    THEN Served(CallResponseOf(plugin.callWithFiles[req.ArgsJson]), NilError,
                plugin,
                <<Invocation("CallWithFiles", req.ArgsJson, req.Files)>>)
    ELSE Served(CallResponseOf(plugin.call[req.ArgsJson]), NilError, plugin,
                <<Invocation("Call", req.ArgsJson, <<>>)>>)

\* json.Marshal(def.Parameters): a nil map is "null", a map is an object, a
\* map holding a value JSON cannot express is an error
MarshalParameters(parameters) ==
    IF parameters = "nil" THEN Outcome("null", NilError)
    ELSE IF parameters = "object" THEN Outcome("{\"type\":\"object\"}", NilError)
    ELSE Outcome("", Errorf("json: unsupported type: chan int"))

ServerGetDefinition(plugin, req) ==
    LET def == plugin.definition
        marshalled == MarshalParameters(def.Parameters)
        calls == <<Invocation("Definition", "", <<>>)>>
    IN  IF ~marshalled.err.isNil
        THEN Served(NilResponse, marshalled.err, plugin, calls)
        ELSE Served([Name |-> def.Name, Description |-> def.Description,
                     ParametersJson |-> marshalled.result],
                    NilError, plugin, calls)

ServerGetVersion_Empty(plugin, req) ==
    IF Implements(plugin, "VersionedTool")
    THEN Served([Version |-> plugin.version], NilError, plugin,
                <<Invocation("Version", "", <<>>)>>)
    ELSE Served([Version |-> ""], NilError, plugin, <<>>)

ServerGetVersion(plugin, req) ==
    IF Implements(plugin, "VersionedTool")
    THEN Served([Version |-> plugin.version], NilError, plugin,
                <<Invocation("Version", "", <<>>)>>)
    ELSE Served([Version |-> "unknown"], NilError, plugin, <<>>)

\* the request carries Name, ConfigPath, SettingsPath and AgentDir
ServerSetAgentContext(plugin, req) ==
    IF Implements(plugin, "AgentAwareTool")
    THEN Served([empty |-> TRUE], NilError,
                [plugin EXCEPT !.agentContext =
                    [Name |-> req.Name, ConfigPath |-> req.ConfigPath,
                     SettingsPath |-> req.SettingsPath,
                     AgentDir |-> req.AgentDir, CurrentLocation |-> ""]],
                <<Invocation("SetAgentContext", req.Name, <<>>)>>)
    ELSE Served([empty |-> TRUE], NilError, plugin, <<>>)

ServerGetDefaultSettings(plugin, req) ==
    IF Implements(plugin, "DefaultSettingsProvider")
    THEN LET calls == <<Invocation("GetDefaultSettings", "", <<>>)>>
         IN  IF ~plugin.defaultSettings.err.isNil
             THEN Served([SettingsJson |-> "",
                          Error |-> plugin.defaultSettings.err.msg],
                         NilError, plugin, calls)
             ELSE Served([SettingsJson |-> plugin.defaultSettings.result,
                          Error |-> ""], NilError, plugin, calls)
    ELSE Served([SettingsJson |-> "", Error |-> ""], NilError, plugin, <<>>)

ServerGetRequiredConfig(plugin, req) ==
    IF Implements(plugin, "InitializationProvider")
    THEN Served([ConfigVars |-> plugin.requiredConfig], NilError, plugin,
                <<Invocation("GetRequiredConfig", "", <<>>)>>)
    ELSE Served([ConfigVars |-> <<>>], NilError, plugin, <<>>)

ConfigResponse(success, error) == [Success |-> success, Error |-> error]

\* json.Unmarshal([]byte(req.ConfigJson), &config)
UnmarshalConfig(configJson) ==
    IF configJson \in {"{}", "null"} THEN NilError
    ELSE Errorf("invalid character 'x' looking for beginning of value")

ConfigCall(plugin, req, method) ==
    IF Implements(plugin, "InitializationProvider")
    THEN IF ~UnmarshalConfig(req.ConfigJson).isNil
         THEN Served(ConfigResponse(FALSE, UnmarshalConfig(req.ConfigJson).msg),
                     NilError, plugin, <<>>)
         ELSE LET calls == <<Invocation(method, req.ConfigJson, <<>>)>>
              IN  IF ~plugin.configError.isNil
                  THEN Served(ConfigResponse(FALSE, plugin.configError.msg),
                              NilError, plugin, calls)
                  ELSE Served(ConfigResponse(TRUE, ""), NilError, plugin, calls)
    ELSE Served(ConfigResponse(FALSE,
                    "plugin does not implement InitializationProvider"),
                NilError, plugin, <<>>)

ServerValidateConfig(plugin, req) == ConfigCall(plugin, req, "ValidateConfig")

ServerInitializeWithConfig(plugin, req) ==
    ConfigCall(plugin, req, "InitializeWithConfig")

\* metadata is the pointer the plugin returned: metadata.Tags = ... writes to
\* the object the plugin owns
ServerGetMetadata(plugin, req) ==
    IF Implements(plugin, "MetadataProvider")
    THEN IF ~plugin.metadataError.isNil
         THEN Served([Metadata |-> NilMetadata, Error |-> plugin.metadataError.msg],
                     NilError, plugin, <<Invocation("GetMetadata", "", <<>>)>>)
         ELSE IF ~plugin.metadata.isNil
         THEN LET written == [plugin EXCEPT !.metadata.Tags = GetTags(plugin)]
              IN  Served([Metadata |-> written.metadata, Error |-> ""],
                         NilError, written,
                         <<Invocation("GetMetadata", "", <<>>),
                           Invocation("GetTags", "", <<>>)>>)
         ELSE Served([Metadata |-> NilMetadata, Error |-> ""], NilError, plugin,
                     <<Invocation("GetMetadata", "", <<>>)>>)
    ELSE Served([Metadata |-> NilMetadata, Error |-> ""], NilError, plugin, <<>>)

CompatibilityInfoResponse(min, max, api) ==
    [MinAgentVersion |-> min, MaxAgentVersion |-> max, ApiVersion |-> api]

ServerGetCompatibilityInfo(plugin, req) ==
    IF Implements(plugin, "PluginCompatibility")
    THEN Served(CompatibilityInfoResponse(plugin.minAgentVer, plugin.maxAgentVer,
                                          plugin.apiVersion),
                NilError, plugin,
                <<Invocation("MinAgentVersion", "", <<>>),
                  Invocation("MaxAgentVersion", "", <<>>),
                  Invocation("APIVersion", "", <<>>)>>)
    ELSE Served(CompatibilityInfoResponse("", "", ""), NilError, plugin, <<>>)

ServerGetWebPages(plugin, req) ==
    IF Implements(plugin, "WebPageProvider")
    THEN Served([Pages |-> plugin.webPages], NilError, plugin,
                <<Invocation("GetWebPages", "", <<>>)>>)
    ELSE Served([Pages |-> <<>>], NilError, plugin, <<>>)

WebPageResponse(content, contentType, error) ==
    [Content |-> content, ContentType |-> contentType, Error |-> error]

ServerServeWebPage(plugin, req) ==
    IF Implements(plugin, "WebPageProvider")
    THEN LET calls == <<Invocation("ServeWebPage", req.Path, <<>>)>>
         IN  IF ~plugin.webPage.err.isNil
             THEN Served(WebPageResponse("", "", plugin.webPage.err.msg),
                         NilError, plugin, calls)
             ELSE Served(WebPageResponse(plugin.webPage.result, "text/html", ""),
                         NilError, plugin, calls)
    ELSE Served(WebPageResponse("", "", "plugin does not implement WebPageProvider"),
                NilError, plugin, <<>>)

\* plugin.operations is [isNil, list]: GetOperations may return nil
ServerGetOperations(plugin, req) ==
    IF Implements(plugin, "OperationsProvider")
    THEN LET calls == <<Invocation("GetOperations", "", <<>>)>>
         IN  IF plugin.operations.isNil
             THEN Served([Operations |-> <<>>, SupportsOperations |-> FALSE],
                         NilError, plugin, calls)
             ELSE Served([Operations |-> plugin.operations.list,
                          SupportsOperations |-> TRUE], NilError, plugin, calls)
    ELSE Served([Operations |-> <<>>, SupportsOperations |-> FALSE],
                NilError, plugin, <<>>)

ServerAcceptsFiles(plugin, req) ==
    IF Implements(plugin, "FileAttachmentHandler")
    THEN Served([AcceptedTypes |-> plugin.acceptedTypes, SupportsFiles |-> TRUE],
                NilError, plugin, <<Invocation("AcceptsFiles", "", <<>>)>>)
    ELSE Served([AcceptedTypes |-> <<>>, SupportsFiles |-> FALSE],
                NilError, plugin, <<>>)

\* what the client stub c.client.M returns: the dispatcher's response over a
\* working transport, the transport's own error over a failing one (the
\* dispatcher is then never reached), and an RPC error when the dispatcher
\* itself returned an error
TransportError == Errorf("rpc error: code = Unavailable desc = connection refused")

Wire(plugin, served, transportUp) ==
    IF ~transportUp
    THEN Served(NilResponse, TransportError, plugin, <<>>)
    ELSE IF ~served.err.isNil
    THEN Served(NilResponse,
                Errorf("rpc error: code = Unknown desc = " \o served.err.msg),
                served.impl, served.invoked)
    ELSE served

\* what a proxy method hands back: its return values, the plugin afterwards
\* and the plugin methods invoked on the way
Returned(result, err, wire) ==
    [resp |-> result, err |-> err, impl |-> wire.impl, invoked |-> wire.invoked]

EmptyToolValue == [Name |-> "", Description |-> "", Parameters |-> "nil"]

\* json.Unmarshal([]byte(resp.ParametersJson), &params): null leaves the map
\* nil, an object fills it, anything else is an error and gives an empty map
UnmarshalParameters(parametersJson) ==
    IF parametersJson = "null" THEN "nil"
    ELSE IF parametersJson = "{\"type\":\"object\"}" THEN "object"
    ELSE "empty"

ClientDefinition(plugin, transportUp) ==
    LET wire == Wire(plugin, ServerGetDefinition(plugin, [empty |-> TRUE]),
                     transportUp)
    IN  IF ~wire.err.isNil THEN Returned(EmptyToolValue, NilError, wire)
        ELSE Returned([Name |-> wire.resp.Name,
                       Description |-> wire.resp.Description,
                       Parameters |-> UnmarshalParameters(wire.resp.ParametersJson)],
                      NilError, wire)

\* if err := resp.Error; err != "" { return "", fmt.Errorf("%s", err) }
CallResult(wire) ==
    IF ~wire.err.isNil THEN Returned("", wire.err, wire)
    ELSE IF wire.resp.Error # "" THEN Returned("", Errorf(wire.resp.Error), wire)
    ELSE Returned(wire.resp.ResultJson, NilError, wire)

ClientCall(plugin, args, transportUp) ==
    CallResult(Wire(plugin, ServerCall(plugin, [ArgsJson |-> args]), transportUp))

ClientCallWithFiles(plugin, args, files, transportUp) ==
    CallResult(Wire(plugin,
                    ServerCallWithFiles(plugin, [ArgsJson |-> args, Files |-> files]),
                    transportUp))

ClientVersion(plugin, transportUp) ==
    LET wire == Wire(plugin, ServerGetVersion(plugin, [empty |-> TRUE]), transportUp)
    IN  IF ~wire.err.isNil THEN Returned("unknown", NilError, wire)
        ELSE Returned(wire.resp.Version, NilError, wire)

\* the request is built from Name, ConfigPath, SettingsPath and AgentDir of
\* ctx; the response and the error of the stub are discarded
ClientSetAgentContext(plugin, ctx, transportUp) ==
    LET req == [Name |-> ctx.Name, ConfigPath |-> ctx.ConfigPath,
                SettingsPath |-> ctx.SettingsPath, AgentDir |-> ctx.AgentDir]
        wire == Wire(plugin, ServerSetAgentContext(plugin, req), transportUp)
    IN  Returned([empty |-> TRUE], NilError, wire)

\* MinAgentVersion, MaxAgentVersion and APIVersion each fetch the
\* compatibility info and return one field of it
ClientCompatibility(plugin, field, transportUp) ==
    LET wire == Wire(plugin, ServerGetCompatibilityInfo(plugin, [empty |-> TRUE]),
                     transportUp)
    IN  IF ~wire.err.isNil THEN Returned("", NilError, wire)
        ELSE Returned(wire.resp[field], NilError, wire)

ClientMinAgentVersion(plugin, transportUp) ==
    ClientCompatibility(plugin, "MinAgentVersion", transportUp)
ClientMaxAgentVersion(plugin, transportUp) ==
    ClientCompatibility(plugin, "MaxAgentVersion", transportUp)
ClientAPIVersion(plugin, transportUp) ==
    ClientCompatibility(plugin, "ApiVersion", transportUp)

\* the plugins, requests and attachments explored
ArgsJsons == {"{}", "{\"q\":1}"}
HandlerOutcomes ==
    {Outcome("done", NilError), Outcome("", NilError),
     Outcome("", Errorf("boom")), Outcome("partial", Errorf("boom")),
     Outcome("", Errorf(""))}
FileHandlerOutcomes ==
    {Outcome("with files", NilError), Outcome("", Errorf("bad file")),
     Outcome("", Errorf(""))}
ProtoFiles == {<<>>, <<[Name |-> "a.wav", Type |-> "audio/wav", Size |-> 1]>>}
ConfigJsons == {"{}", "null", "x"}
AgentContextRequests ==
    {[Name |-> n, ConfigPath |-> "/c", SettingsPath |-> "/s", AgentDir |-> d] :
        n \in {"agent"}, d \in {"", "/agents/agent"}}

AgentContexts ==
    {[Name |-> "agent", ConfigPath |-> "/c", SettingsPath |-> "/s",
      AgentDir |-> d, CurrentLocation |-> l] :
        d \in {"", "/agents/agent"}, l \in {"", "Home"}}

ImplementSets == {{}} \cup {{c} : c \in Capabilities} \cup {Capabilities}

PlainPlugin ==
    [implements |-> {},
     call |-> [a \in ArgsJsons |-> Outcome("done", NilError)],
     callWithFiles |-> [a \in ArgsJsons |-> Outcome("with files", NilError)],
     definition |-> [Name |-> "tool", Description |-> "test",
                     Parameters |-> "object"],
     version |-> "1.2.3", minAgentVer |-> "0.0.6", maxAgentVer |-> "1.0.0",
     apiVersion |-> "v1",
     agentContext |-> NoAgentContext,
     defaultSettings |-> Outcome("{\"k\":1}", NilError),
     requiredConfig |-> <<"api_key">>,
     configError |-> NilError,
     metadata |-> NilMetadata, metadataError |-> NilError, configTags |-> <<>>,
     webPages |-> <<"index">>, webPage |-> Outcome("<p>", NilError),
     operations |-> [isNil |-> FALSE, list |-> <<"echo">>],
     acceptedTypes |-> <<".wav">>]

\* plugins that differ in what they implement and in what their handlers
\* return for each argument string
HandlerPlugins ==
    {[PlainPlugin EXCEPT !.implements = i, !.call = c,
                         !.callWithFiles = [a \in ArgsJsons |-> f]] :
        i \in ImplementSets, c \in [ArgsJsons -> HandlerOutcomes],
        f \in FileHandlerOutcomes}

\* plugins that differ in the metadata object and the tags they own
MetadataPlugins ==
    {[PlainPlugin EXCEPT !.implements = i, !.metadata = m, !.configTags = t,
                         !.metadataError = e] :
        i \in {{"MetadataProvider"}, Capabilities},
        m \in {NilMetadata, PluginMetadata("p", <<>>), PluginMetadata("p", <<"a">>)},
        t \in {<<>>, <<"b">>},
        e \in {NilError, Errorf("no metadata")}}

\* plugins whose optional methods fail or return nothing, and whose
\* definition has nil, plain or unmarshalable parameters
ProviderPlugins ==
    {[PlainPlugin EXCEPT !.implements = i, !.definition.Parameters = d,
                         !.defaultSettings = Outcome("", Errorf("no settings")),
                         !.configError = Errorf("bad config"),
                         !.webPage = Outcome("", Errorf("no page")),
                         !.operations = [isNil |-> TRUE, list |-> <<>>],
                         !.requiredConfig = <<>>, !.webPages = <<>>,
                         !.acceptedTypes = <<>>] :
        i \in ImplementSets, d \in {"nil", "object", "unmarshalable"}}

Plugins == HandlerPlugins \cup MetadataPlugins \cup ProviderPlugins

NoRequest == [empty |-> TRUE]
NoReply == [resp |-> NilResponse, err |-> NilError]
RpcIdle ==
    /\ impl = PlainPlugin
    /\ rpcCall = "none"
    /\ rpcArgs = NoRequest
    /\ rpcRet = NoReply
    /\ invoked = <<>>

----------------------------------------------------------------------------
(***************************************************************************)
(* The config variable expander: expandTemplates and ToConfigVariables.    *)
(* Strings are sequences of one-byte strings.  The host is what the        *)
(* process reads from its surroundings: runtime.GOOS, runtime.GOARCH, the  *)
(* home directory of user.Current() (empty when that call fails) and the   *)
(* process environment.                                                    *)
(***************************************************************************)
\* interface{} values whose strings are byte sequences
NilValue == [kind |-> "nil", str |-> <<>>, num |-> 0, bool |-> FALSE]
StringValue(s) == [kind |-> "string", str |-> s, num |-> 0, bool |-> FALSE]
IntValue(n) == [kind |-> "int", str |-> <<>>, num |-> n, bool |-> FALSE]
BoolValue(b) == [kind |-> "bool", str |-> <<>>, num |-> 0, bool |-> b]

TemplateOS == <<"{", "{", "O", "S", "}", "}">>
TemplateARCH == <<"{", "{", "A", "R", "C", "H", "}", "}">>
TemplateUSER_HOME ==
    <<"{", "{", "U", "S", "E", "R", "_", "H", "O", "M", "E", "}", "}">>

\* strings.HasPrefix
HasPrefix(s, prefix) ==
    Len(s) >= Len(prefix) /\ SubSeq(s, 1, Len(prefix)) = prefix

\* strings.Contains
Contains(s, substr) ==
    \E i \in 1..(Len(s) - Len(substr) + 1) :
        SubSeq(s, i, i + Len(substr) - 1) = substr

\* strings.ReplaceAll for a non-empty old: the non-overlapping occurrences,
\* found from the left
RECURSIVE ReplaceAll(_, _, _)
ReplaceAll(s, old, new) ==
    IF Len(s) < Len(old) THEN s
    ELSE IF HasPrefix(s, old)
    THEN new \o ReplaceAll(SubSeq(s, Len(old) + 1, Len(s)), old, new)
    ELSE <<s[1]>> \o ReplaceAll(Tail(s), old, new)

\* the elements of a slash-separated path, empty ones included
RECURSIVE SplitPath(_)
SplitPath(path) ==
    IF \A i \in DOMAIN path : path[i] # "/" THEN <<path>>
    ELSE LET k == CHOOSE i \in DOMAIN path :
                      path[i] = "/" /\ \A j \in 1..(i - 1) : path[j] # "/"
         IN  <<SubSeq(path, 1, k - 1)>> \o SplitPath(SubSeq(path, k + 1, Len(path)))

RECURSIVE JoinPath(_)
JoinPath(elems) ==
    IF Len(elems) = 0 THEN <<>>
    ELSE IF Len(elems) = 1 THEN elems[1]
    ELSE elems[1] \o <<"/">> \o JoinPath(Tail(elems))

\* the loop of filepath.Clean over the elements of the path: out is the
\* elements kept so far, dotdot the number of leading ".." elements of out
RECURSIVE cleanElements(_, _, _, _, _)
cleanElements(elems, i, out, dotdot, rooted) ==
    IF i > Len(elems) THEN out
    ELSE IF elems[i] = <<>> \/ elems[i] = <<".">>
    THEN cleanElements(elems, i + 1, out, dotdot, rooted)
    ELSE IF elems[i] = <<".", ".">>
    THEN IF Len(out) > dotdot
         THEN cleanElements(elems, i + 1, SubSeq(out, 1, Len(out) - 1), dotdot,
                            rooted)
         ELSE IF ~rooted
         THEN cleanElements(elems, i + 1, Append(out, elems[i]), dotdot + 1,
                            rooted)
         ELSE cleanElements(elems, i + 1, out, dotdot, rooted)
    ELSE cleanElements(elems, i + 1, Append(out, elems[i]), dotdot, rooted)

\* filepath.Clean on a slash-separated path
Clean(path) ==
    IF Len(path) = 0 THEN <<".">>
    ELSE LET rooted == path[1] = "/"
             out == JoinPath(cleanElements(SplitPath(path), 1, <<>>, 0, rooted))
         IN  IF rooted THEN <<"/">> \o out
             ELSE IF Len(out) = 0 THEN <<".">>
             ELSE out

\* filepath.Join(dir, rest) for a non-empty dir
Join(dir, rest) == Clean(dir \o <<"/">> \o rest)

\* os.Getenv: the empty string for a variable that is not set
Getenv(host, name) ==
    IF name \in DOMAIN host.env THEN host.env[name] ELSE <<>>

Digits == {"0", "1", "2", "3", "4", "5", "6", "7", "8", "9"}

\* os.isShellSpecialVar
isShellSpecialVar(c) == c \in {"*", "#", "$", "@", "!", "?", "-"} \cup Digits

\* os.isAlphaNum
isAlphaNum(c) ==
    c \in {"_"} \cup Digits \cup Range(LowerLetters) \cup Range(UpperLetters)

\* os.getShellName for a non-empty s: the name that follows a $, and the
\* number of bytes it takes
getShellName(s) ==
    IF s[1] = "{" THEN
        IF Len(s) > 2 /\ isShellSpecialVar(s[2]) /\ s[3] = "}"
        THEN [name |-> <<s[2]>>, w |-> 3]
        ELSE IF \E i \in 2..Len(s) : s[i] = "}"
        THEN LET k == CHOOSE i \in 2..Len(s) :
                          s[i] = "}" /\ \A j \in 2..(i - 1) : s[j] # "}"
             IN  IF k = 2 THEN [name |-> <<>>, w |-> 2]
                 ELSE [name |-> SubSeq(s, 2, k - 1), w |-> k]
        ELSE [name |-> <<>>, w |-> 1]
    ELSE IF isShellSpecialVar(s[1]) THEN [name |-> <<s[1]>>, w |-> 1]
    ELSE LET stops == {i \in 1..Len(s) : ~isAlphaNum(s[i])}
             n == IF stops = {} THEN Len(s)
                  ELSE (CHOOSE i \in stops : \A j \in stops : i <= j) - 1
         IN  [name |-> SubSeq(s, 1, n), w |-> n]

\* os.Expand(s, os.Getenv): $name and ${name} are replaced, a $ that no name
\* follows is kept, invalid syntax is eaten
RECURSIVE Expand(_, _)
Expand(s, host) ==
    IF Len(s) = 0 THEN s
    ELSE IF s[1] = "$" /\ Len(s) > 1
    THEN LET shell == getShellName(Tail(s))
             rest == Expand(SubSeq(s, shell.w + 2, Len(s)), host)
         IN  IF shell.name = <<>> /\ shell.w > 0 THEN rest
             ELSE IF shell.name = <<>> THEN <<"$">> \o rest
             ELSE Getenv(host, shell.name) \o rest
    ELSE <<s[1]>> \o Expand(Tail(s), host)

\* os.ExpandEnv
ExpandEnv(s, host) == Expand(s, host)

\* the replacements map of expandTemplates
replacements(host) ==
    (TemplateUSER_HOME :> host.homeDir) @@ (TemplateOS :> host.GOOS)
        @@ (TemplateARCH :> host.GOARCH)

\* the loop over the replacements map, visiting its keys in the given order
RECURSIVE replaceTemplates(_, _, _, _)
replaceTemplates(result, host, order, i) ==
    IF i > Len(order) THEN result
    ELSE replaceTemplates(ReplaceAll(result, order[i], replacements(host)[order[i]]),
                          host, order, i + 1)

\* lines 593-595
expandTilde(result, host) ==
    IF HasPrefix(result, <<"~", "/">>) /\ host.homeDir # <<>>
    THEN Join(host.homeDir, SubSeq(result, 3, Len(result)))
    ELSE result

\* lines 598-600
expandPercent(result, host) ==
    IF Contains(result, <<"%">>) THEN ExpandEnv(result, host) ELSE result

\* the tilde expansion done before the loop over the replacements
expandTemplatesIn_TildeFirst(value, host, order) ==
    IF value.kind # "string"
    THEN [replaced |-> value, tilded |-> value, value |-> value]
    ELSE LET tilded == expandTilde(value.str, host)
             replaced == replaceTemplates(tilded, host, order, 1)
         IN  [replaced |-> StringValue(replaced), tilded |-> StringValue(replaced),
              value |-> StringValue(expandPercent(replaced, host))]

\* expandTemplates for one iteration order of the replacements map: the
\* value of `result` after the loop, after the tilde expansion, and the
\* value returned
expandTemplatesIn(value, host, order) ==
    IF value.kind # "string"
    THEN [replaced |-> value, tilded |-> value, value |-> value]
    ELSE LET replaced == replaceTemplates(value.str, host, order, 1)
             tilded == expandTilde(replaced, host)
         IN  [replaced |-> StringValue(replaced), tilded |-> StringValue(tilded),
              value |-> StringValue(expandPercent(tilded, host))]

\* what expandTemplates can do, whichever order the map is iterated in
expandTemplatesRuns(value, host) ==
    {expandTemplatesIn(value, host, order) :
        order \in Perms(DOMAIN replacements(host))}

\* the values expandTemplates can return
expandTemplates(value, host) ==
    {run.value : run \in expandTemplatesRuns(value, host)}

getCurrentPlatform(host) == host.GOOS

YAMLConfigVariable(key, type, default, placeholder, platformDefaults) ==
    [Key |-> key, Name |-> key, Description |-> "d", Type |-> type,
     Required |-> TRUE, DefaultValue |-> default, Validation |-> "",
     Options |-> <<>>, Placeholder |-> placeholder,
     PlatformDefaults |-> platformDefaults]

\* the string a placeholder expansion yields: "" unless the expanded value
\* is a non-nil string
placeholderOf(expanded, otherwise) ==
    IF expanded.kind = "string" THEN expanded.str ELSE otherwise

\* no platform default is ever applied
hasPlatformDefault_Never(yamlVar, host) == FALSE

\* lines 545-546: the variable has an entry for the current platform
hasPlatformDefault(yamlVar, host) ==
    /\ Cardinality(DOMAIN yamlVar.PlatformDefaults) > 0
    /\ getCurrentPlatform(host) \in DOMAIN yamlVar.PlatformDefaults

\* the ConfigVariables the body of the loop of ToConfigVariables can build
\* for one YAML variable (lines 521-557)
convertVariable(yamlVar, host) ==
    LET placeholders ==
            IF yamlVar.Placeholder # <<>>
            THEN {placeholderOf(e, <<>>) :
                     e \in expandTemplates(StringValue(yamlVar.Placeholder), host)}
            ELSE {<<>>}
        overridden == hasPlatformDefault(yamlVar, host)
        configVar(defaultValue, placeholder) ==
            [Key |-> yamlVar.Key, Name |-> yamlVar.Name,
             Description |-> yamlVar.Description, Type |-> yamlVar.Type,
             Required |-> yamlVar.Required, DefaultValue |-> defaultValue,
             Validation |-> yamlVar.Validation, Options |-> yamlVar.Options,
             Placeholder |-> placeholder]
    IN  IF ~overridden
        THEN {configVar(d, p) :
                 d \in expandTemplates(yamlVar.DefaultValue, host),
                 p \in placeholders}
        ELSE LET platformDefault == yamlVar.PlatformDefaults[getCurrentPlatform(host)]
             IN  {configVar(d, IF p = <<>> THEN placeholderOf(e, p) ELSE p) :
                     d \in expandTemplates(platformDefault, host),
                     e \in expandTemplates(platformDefault, host),
                     p \in placeholders}

\* the slices ToConfigVariables can return for c.Config.Variables[i..]
RECURSIVE convertVariablesFrom(_, _, _)
convertVariablesFrom(variables, host, i) ==
    IF i > Len(variables) THEN {<<>>}
    ELSE {<<v>> \o rest : v \in convertVariable(variables[i], host),
                          rest \in convertVariablesFrom(variables, host, i + 1)}

\* PluginConfig.ToConfigVariables: the slices it can return; a nil slice and
\* an empty one are both the empty sequence
ToConfigVariables(c, host) ==
    IF Len(c.Config.Variables) = 0 THEN {<<>>}
    ELSE convertVariablesFrom(c.Config.Variables, host, 1)

\* the hosts, values and configurations explored
Linux == <<"l", "i", "n", "u", "x">>
Darwin == <<"d", "a", "r", "w", "i", "n">>
Windows == <<"w", "i", "n", "d", "o", "w", "s">>
Hosts ==
    {[GOOS |-> os, GOARCH |-> <<"a", "r", "m", "6", "4">>, homeDir |-> home,
      env |-> env] :
        os \in {Linux, Darwin},
        home \in {<<>>, <<"/", "h">>, <<"/">>},
        env \in {EmptyMap, <<"X">> :> <<"v">>}}

Pieces ==
    {TemplateOS, TemplateARCH, TemplateUSER_HOME, <<"~", "/">>, <<"a">>, <<"/">>,
     <<".", ".">>, <<"%", "X", "%">>, <<"$", "X">>, <<"{", "{">>}

RECURSIVE Flatten(_)
Flatten(pieces) ==
    IF Len(pieces) = 0 THEN <<>> ELSE pieces[1] \o Flatten(Tail(pieces))

TemplateStrings == {Flatten(ps) : ps \in SeqsUpTo(Pieces, MaxPieces)}
TemplateValues ==
    {StringValue(s) : s \in TemplateStrings} \cup {NilValue, IntValue(42), BoolValue(TRUE)}

ConfigVariablePool ==
    {YAMLConfigVariable("scripts_dir", "dirpath", StringValue(<<"~", "/", "a">>),
                        <<"~", "/", "a">>,
                        (Windows :> StringValue(<<"%", "X", "%", "/", "a">>))
                            @@ (Linux :> StringValue(<<"~", "/">> \o TemplateOS))),
     YAMLConfigVariable("api_key", "string",
                        StringValue(TemplateOS \o <<"_">> \o TemplateARCH), <<>>, EmptyMap),
     YAMLConfigVariable("port", "int", IntValue(42), <<>>, Darwin :> IntValue(7)),
     YAMLConfigVariable("home", "dirpath", StringValue(TemplateUSER_HOME),
                        TemplateUSER_HOME,
                        (Linux :> StringValue(<<"/", "a">>)) @@ (Darwin :> NilValue)),
     YAMLConfigVariable("none", "string", NilValue, <<"a">>, Windows :> StringValue(<<"a">>))}

PluginConfigs ==
    {[Config |-> [Variables |-> vs]] :
        vs \in SeqsUpTo(ConfigVariablePool, MaxVariables)}

NoExpandArgs == [value |-> NilValue]
NoExpandReturn == [value |-> NilValue]
IdleHost ==
    [GOOS |-> Linux, GOARCH |-> <<"a", "r", "m", "6", "4">>,
     homeDir |-> <<"/", "h">>, env |-> EmptyMap]
ExpandIdle ==
    /\ hostState = IdleHost
    /\ expandCall = "none"
    /\ expandArgs = NoExpandArgs
    /\ expandRet = NoExpandReturn

----------------------------------------------------------------------------
(***************************************************************************)
(* The settings manager: a key-value cache written to a JSON file through  *)
(* a temp file and a rename.  The disk is a map from paths to documents; a *)
(* path that is not in its domain does not exist.                          *)
(***************************************************************************)

\* interface{} holding a channel, which encoding/json cannot marshal
ChanV == [kind |-> "chan", str |-> "", num |-> 0]

\* m with key k bound to v, and m without key k
Put(m, k, v) == (k :> v) @@ m
Without(m, k) == [x \in DOMAIN m \ {k} |-> m[x]]

\* JSON values: null, a string, a number (in tenths) or a boolean
JsonValue(type, str, num) == [json |-> type, str |-> str, num |-> num]

\* json.Marshal of one value of the cache
MarshalValue(v) ==
    IF v.kind = "nil" THEN JsonValue("null", "", 0)
    ELSE IF v.kind = "string" THEN JsonValue("string", v.str, 0)
    ELSE IF v.kind = "bool" THEN JsonValue("bool", v.str, 0)
    ELSE IF v.kind \in {"int", "int64"} THEN JsonValue("number", "", 10 * v.num)
    ELSE JsonValue("number", "", v.num)

\* json.Unmarshal of one member into interface{}: a number becomes a float64
UnmarshalValue(j) ==
    IF j.json = "null" THEN Nil
    ELSE IF j.json = "string" THEN StrV(j.str)
    ELSE IF j.json = "bool" THEN BoolV(j.str = "true")
    ELSE Float64V(j.num)

\* JSON documents: an object, null, another valid JSON value, or bytes that
\* are no JSON at all
JsonObject(members) == [kind |-> "object", members |-> members]
JsonNull == [kind |-> "null", members |-> EmptyMap]
JsonArray == [kind |-> "array", members |-> EmptyMap]
NotJson == [kind |-> "invalid", members |-> EmptyMap]

\* map[string]interface{}: nil, or a map
NilCache == [isNil |-> TRUE, entries |-> EmptyMap]
Cache(entries) == [isNil |-> FALSE, entries |-> entries]

\* json.MarshalIndent(sm.cache, "", "  "): (data, err)
MarshalIndent(cache) ==
    IF \E k \in DOMAIN cache.entries : cache.entries[k].kind = "chan"
    THEN [data |-> NotJson,
          err |-> Errorf("json: unsupported type: chan int")]
    ELSE IF cache.isNil THEN [data |-> JsonNull, err |-> NilError]
    ELSE [data |-> JsonObject([k \in DOMAIN cache.entries |->
                                  MarshalValue(cache.entries[k])]),
          err |-> NilError]

\* json.Unmarshal(data, &settings) for var settings map[string]interface{}
Unmarshal(data) ==
    IF data.kind = "object"
    THEN [settings |-> Cache([k \in DOMAIN data.members |->
                                 UnmarshalValue(data.members[k])]),
          err |-> NilError]
    ELSE IF data.kind = "null" THEN [settings |-> NilCache, err |-> NilError]
    ELSE IF data.kind = "array"
    THEN [settings |-> NilCache,
          err |-> Errorf("json: cannot unmarshal array into Go value of type map[string]interface {}")]
    ELSE [settings |-> NilCache,
          err |-> Errorf("invalid character 'i' looking for beginning of value")]

\* strings.TrimSpace(strings.ToLower(strings.ReplaceAll(name, "_", "-"))) on
\* the plugin names explored
normalizePluginNameForSettings(name) ==
    IF name = "P_q" THEN "p-q"
    ELSE IF name = "P" THEN "p"
    ELSE name

\* filepath.Join(agentDir, normalizedName + "_settings.json")
SettingsPath(agentDir, pluginName) ==
    agentDir \o "/" \o normalizePluginNameForSettings(pluginName)
        \o "_settings.json"

\* filepath.Join(agentDir, "plugins", pluginName, "settings.json")
LegacyPath(agentDir, pluginName) ==
    agentDir \o "/plugins/" \o pluginName \o "/settings.json"

\* sm.filePath + ".tmp"
TempPath(filePath) == filePath \o ".tmp"

\* os.Stat(path) returns no error
Exists(files, path) == path \in DOMAIN files

\* *settingsManager; isNil marks the nil interface
NilManager ==
    [isNil |-> TRUE, cache |-> NilCache, filePath |-> "", dirty |-> FALSE]
SettingsManagerValue(cache, filePath, dirty) ==
    [isNil |-> FALSE, cache |-> cache, filePath |-> filePath, dirty |-> dirty]

\* what a method of the manager hands back: the manager and the disk
\* afterwards, the value and the error returned, and whether it panicked
\* instead of returning
Outcome4(sm, files, value, err) ==
    [sm |-> sm, disk |-> files, value |-> value, err |-> err, panicked |-> FALSE]
Panicked(sm, files) ==
    [sm |-> sm, disk |-> files, value |-> Nil,
     err |-> Errorf("assignment to entry in nil map"), panicked |-> TRUE]

\* what can go wrong while saving: nothing; os.WriteFile fails before it
\* creates the temp file, or after it has written a part of it; os.Rename
\* fails and os.Remove removes the temp file, or fails as well
SaveFaults == {"none", "open", "write", "rename", "rename and remove"}

\* a saveUnlocked that reports success without writing
saveUnlocked_NoWrite(sm, files, fault) ==
    Outcome4([sm EXCEPT !.dirty = FALSE], files, Nil, NilError)

saveUnlocked(sm, files, fault) ==
    LET marshalled == MarshalIndent(sm.cache)
        tempPath == TempPath(sm.filePath)
    IN
    IF ~sm.dirty THEN Outcome4(sm, files, Nil, NilError)
    ELSE IF ~marshalled.err.isNil
    THEN Outcome4(sm, files, Nil,
                  Errorf("failed to marshal settings: " \o marshalled.err.msg))
    ELSE IF fault = "open"
    THEN Outcome4(sm, files, Nil,
                  Errorf("failed to write temp settings file: open"))
    ELSE IF fault = "write"
    THEN Outcome4(sm, Put(files, tempPath, NotJson), Nil,
                  Errorf("failed to write temp settings file: write"))
    ELSE IF fault = "rename"
    THEN Outcome4(sm, Without(files, tempPath), Nil,
                  Errorf("failed to rename settings file: rename"))
    ELSE IF fault = "rename and remove"
    THEN Outcome4(sm, Put(files, tempPath, marshalled.data), Nil,
                  Errorf("failed to rename settings file: rename"))
    ELSE Outcome4([sm EXCEPT !.dirty = FALSE],
                  Put(Without(files, tempPath), sm.filePath, marshalled.data),
                  Nil, NilError)

ManagerGet(sm, files, key) ==
    IF key \in DOMAIN sm.cache.entries
    THEN Outcome4(sm, files, sm.cache.entries[key], NilError)
    ELSE Outcome4(sm, files, Nil, NilError)

\* the copy GetAll returns is never nil
ManagerGetAll(sm, files) ==
    Outcome4(sm, files, Cache(sm.cache.entries), NilError)

\* sm.cache[key] = value panics on a nil map
ManagerSet(sm, files, key, value, fault) ==
    IF sm.cache.isNil THEN Panicked(sm, files)
    ELSE saveUnlocked([sm EXCEPT !.cache = Cache(Put(sm.cache.entries, key, value)),
                                 !.dirty = TRUE],
                      files, fault)

\* a Delete that puts the key back when the save fails
ManagerDelete_RollsBack(sm, files, key, fault) ==
    LET saved == saveUnlocked([sm EXCEPT !.cache.entries = Without(@, key),
                                         !.dirty = TRUE],
                              files, fault)
    IN  IF saved.err.isNil THEN saved ELSE [saved EXCEPT !.sm = sm]

\* delete on a nil map is a no-op
ManagerDelete(sm, files, key, fault) ==
    saveUnlocked([sm EXCEPT !.cache.entries = Without(@, key), !.dirty = TRUE],
                 files, fault)

ManagerSave(sm, files, fault) == saveUnlocked(sm, files, fault)

ManagerLoad(sm, files, readFails) ==
    IF readFails
    THEN Outcome4(sm, files, Nil, Errorf("failed to read settings file: read"))
    ELSE IF ~Exists(files, sm.filePath)
    THEN Outcome4([sm EXCEPT !.cache = Cache(EmptyMap), !.dirty = FALSE],
                  files, Nil, NilError)
    ELSE LET parsed == Unmarshal(files[sm.filePath])
         IN  IF ~parsed.err.isNil
             THEN Outcome4(sm, files, Nil,
                           Errorf("failed to parse settings file: "
                                  \o parsed.err.msg))
             ELSE Outcome4([sm EXCEPT !.cache = parsed.settings,
                                      !.dirty = FALSE],
                           files, Nil, NilError)

\* NewSettingsManager: (manager, err); the manager is nil with an error
NewSettingsManager(agentDir, pluginName, files, readFails) ==
    LET filePath == SettingsPath(agentDir, pluginName)
        legacyPath == LegacyPath(agentDir, pluginName)
        fresh == SettingsManagerValue(Cache(EmptyMap), filePath, FALSE)
    IN
    IF agentDir = ""
    THEN Outcome4(NilManager, files, Nil, Errorf("agentDir cannot be empty"))
    ELSE IF pluginName = ""
    THEN Outcome4(NilManager, files, Nil, Errorf("pluginName cannot be empty"))
    ELSE IF Exists(files, filePath)
    THEN LET loaded == ManagerLoad(fresh, files, readFails)
         IN  IF ~loaded.err.isNil
             THEN Outcome4(NilManager, files, Nil,
                           Errorf("failed to load existing settings: "
                                  \o loaded.err.msg))
             ELSE loaded
    ELSE IF Exists(files, legacyPath)
    THEN LET loaded == ManagerLoad([fresh EXCEPT !.filePath = legacyPath],
                                   files, readFails)
         IN  IF ~loaded.err.isNil
             THEN Outcome4(NilManager, files, Nil,
                           Errorf("failed to load legacy settings: "
                                  \o loaded.err.msg))
             ELSE [loaded EXCEPT !.sm.filePath = filePath]
    ELSE Outcome4(fresh, files, Nil, NilError)

\* the directories, plugin names, keys, values and disks explored
AgentDirs == {"", "/a"}
PluginNames == {"", "p", "P"}
SettingKeys == {"k", "j"}
SettingValues == {StrV("a"), IntV(1), Nil, ChanV}
SettingsFiles ==
    {JsonObject(EmptyMap), JsonObject("k" :> JsonValue("string", "b", 0)),
     JsonNull, JsonArray, NotJson}
LegacyFiles == {JsonObject("j" :> JsonValue("number", "", 25)), NotJson}
Disks ==
    {EmptyMap} \cup {SettingsPath("/a", "p") :> f : f \in SettingsFiles}
        \cup {LegacyPath("/a", "p") :> f : f \in LegacyFiles}
        \cup {(SettingsPath("/a", "p") :> JsonObject(EmptyMap))
                @@ (LegacyPath("/a", "p") :> f) : f \in LegacyFiles}

NoSettingsArgs == [key |-> ""]
NoSettingsReturn == [value |-> Nil, err |-> NilError, panicked |-> FALSE]
SettingsIdle ==
    /\ disk = EmptyMap
    /\ manager = NilManager
    /\ settingsCall = "none"
    /\ settingsArgs = NoSettingsArgs
    /\ settingsRet = NoSettingsReturn

----------------------------------------------------------------------------
(***************************************************************************)
(* BasePlugin: the agent context, the metadata and the lazily created      *)
(* settings manager.  Settings() runs on goroutines that the RPC server    *)
(* starts per call; SetAgentContext and SetMetadata take no lock.          *)
(***************************************************************************)

Goroutines == 1..MaxGoroutines

\* a string header read while it is written: the length of the new value
\* with the nil data pointer of the empty one
TornString == "\\torn"

\* newBasePlugin: no metadata, the zero AgentContext, no settings manager,
\* the mutex unlocked; storing is <<dir>> while a SetAgentContext is writing
BasePluginValue ==
    [agentDir |-> "", storing |-> <<>>, metadata |-> NilMetadata,
     settingsManager |-> 0, settingsMu |-> 0]

\* the frame of a goroutine that is not in Settings(); existing says that
\* the call found b.settingsManager set, and emptyDir that the stored
\* AgentDir has been empty since the call began
NoFrame ==
    [pc |-> "idle", pluginName |-> "", sm |-> 0, panicked |-> FALSE,
     returned |-> FALSE, seen |-> {}, existing |-> FALSE, emptyDir |-> FALSE]

\* what a read of b.agentContext.AgentDir can see: the stored value, or,
\* while SetAgentContext is writing without a lock, the old value, the new
\* one or a mix of the two string headers
ReadAgentDir(b) ==
    IF b.storing = <<>> THEN {b.agentDir}
    ELSE {b.agentDir, b.storing[1]}
            \cup (IF (b.agentDir = "") # (b.storing[1] = "")
                  THEN {"", TornString} ELSE {})

\* settingsMu.Lock() goes ahead
CanLock_Unlocked(b) == TRUE

CanLock(b) == b.settingsMu = 0

\* the directories an agent context carries and the metadata a plugin sets
ContextDirs == {"", "/a", "/b"}
MetadataValues ==
    {NilMetadata, PluginMetadata("", <<>>), PluginMetadata("p", <<>>)}
\* the agent directories a plugin starts in
BaseDisks == {d \in Disks : ~Exists(d, LegacyPath("/a", "p"))}

BaseIdle ==
    /\ basePlugin = BasePluginValue
    /\ frames = [g \in Goroutines |-> NoFrame]
    /\ heap = <<>>
    /\ history = [dirWasSet |-> FALSE, returned |-> {}]
    /\ baseDisk = EmptyMap

----------------------------------------------------------------------------
(***************************************************************************)
(* TemplateRenderer: a cache of parsed templates behind a sync.RWMutex.    *)
(***************************************************************************)

\* the goroutines that use the renderer
Renderers == 1..MaxRenderers

\* sync.RWMutex: the goroutine holding the write lock (0 if none) and the
\* goroutines holding read locks
RWMutexValue(writer, readers) == [writer |-> writer, readers |-> readers]

\* NewTemplateRenderer: an empty cache
NewTemplateRenderer == [cache |-> EmptyMap, mu |-> RWMutexValue(0, {})]

\* a parsed *template.Template: the template of that name, and the layout it
\* was added to (<<>> when it stands alone)
Template(name, content) == [name |-> name, content |-> content, layout |-> <<>>]
LayoutTemplate(layoutName, layoutContent, name, content) ==
    [name |-> name, content |-> content,
     layout |-> <<layoutName, layoutContent>>]

\* cacheKey := layoutName + ":" + templateName
LayoutKey(layoutName, templateName) == layoutName \o ":" \o templateName

\* fs.ReadFile(templateFS, templateName): the content, or an error
ReadFile(fsys, name) ==
    IF name \in DOMAIN fsys THEN [content |-> fsys[name], err |-> NilError]
    ELSE [content |-> "", err |-> Errorf("open " \o name \o ": file does not exist")]

\* template.New(name).Parse(content)
Parse(name, content) ==
    IF content = "invalid"
    THEN [tmpl |-> Template(name, ""),
          err |-> Errorf("template: " \o name \o ": unclosed action")]
    ELSE [tmpl |-> Template(name, content), err |-> NilError]

\* r.mu.RLock() and r.mu.Lock() go ahead
CanRLock(r) == r.mu.writer = 0
CanWLock(r) == r.mu.writer = 0 /\ r.mu.readers = {}

\* the second look at the cache, under the write lock, found nothing
StillMissing_Unchecked(r, name) == TRUE

StillMissing(r, name) == name \notin DOMAIN r.cache

\* the frame of a goroutine that is in neither method
NoRender ==
    [pc |-> "idle", layoutName |-> "", templateName |-> "", cacheKey |-> "",
     layoutContent |-> "", content |-> "", tmpl |-> Template("", ""),
     err |-> NilError]

\* the template names rendered alone, the (layout, template) pairs rendered
\* together, and the keys they are cached under
TemplateNames == {"a", "b"}
LayoutPairs == {<<"a", "b">>}
CacheKeys == TemplateNames \cup {LayoutKey(pair[1], pair[2]) : pair \in LayoutPairs}

\* per cache key, nothing read or parsed since the last ClearCache
NoActivity ==
    [key \in CacheKeys |-> [reads |-> 0, parses |-> 0, stored |-> 0]]

\* the embedded filesystems the templates come from
TemplateFiles ==
    {EmptyMap,
     "a" :> "valid",
     ("a" :> "valid") @@ ("b" :> "invalid"),
     ("a" :> "valid") @@ ("b" :> "valid"),
     ("a" :> "invalid") @@ ("b" :> "valid")}

TemplatesIdle ==
    /\ renderer = NewTemplateRenderer
    /\ renders = [g \in Renderers |-> NoRender]
    /\ activity = NoActivity
    /\ templateFS = EmptyMap

----------------------------------------------------------------------------
(***************************************************************************)
(* The state machine: the caller applies the API functions to the          *)
(* definition of a plugin one at a time, in any order: it calls one, the   *)
(* function returns, the caller takes the result and is free to call       *)
(* again.  The functions of the tool definition are pure; those of the     *)
(* BasePlugin give a definition without a name the name of the plugin,     *)
(* and SetPluginConfig and SetMetadata replace the config and metadata.    *)
(***************************************************************************)
NoReturn == [tool |-> EmptyTool, err |-> NilError]

ToolInit ==
    /\ toolDef \in Definitions
    /\ \E b \in Owners :
          /\ b.configured \/ toolDef = NilToolDefinition
          /\ owner = [b EXCEPT !.generated =
                                   IF toolDef \in GeneratedDefinitions
                                   THEN toolDef ELSE NilToolDefinition]
    /\ lastCall = "none"
    /\ params = EmptyMap
    /\ ret = NoReturn
    /\ FilesIdle
    /\ RpcIdle
    /\ ExpandIdle
    /\ SettingsIdle
    /\ BaseIdle
    /\ TemplatesIdle

CallValidateYAMLToolDefinition ==
    /\ lastCall = "none"
    /\ \E e \in ValidateYAMLToolDefinition(toolDef) :
          ret' = [tool |-> EmptyTool, err |-> e]
    /\ lastCall' = "ValidateYAMLToolDefinition"
    /\ params' = EmptyMap
    /\ UNCHANGED <<toolDef, owner, notToolVars>>

CallToToolDefinition ==
    /\ lastCall = "none"
    /\ \E r \in ToToolDefinition(toolDef) : ret' = r
    /\ lastCall' = "ToToolDefinition"
    /\ params' = EmptyMap
    /\ UNCHANGED <<toolDef, owner, notToolVars>>

CallValidateToolParametersWithOperations ==
    /\ lastCall = "none"
    /\ \E args \in Arguments :
           /\ ret' = [tool |-> EmptyTool,
                      err |-> ValidateToolParametersWithOperations(toolDef, args)]
           /\ lastCall' = "ValidateToolParametersWithOperations"
           /\ params' = args
           /\ UNCHANGED <<toolDef, owner, notToolVars>>

\* BasePlugin.SetPluginConfig(config): b.pluginConfig = config
CallSetPluginConfig ==
    /\ lastCall = "none"
    /\ \E config \in Configs :
          /\ owner' = [owner EXCEPT !.configured = ~config.isNil,
                                    !.Name = config.Name]
          /\ toolDef' = config.Tool
    /\ UNCHANGED <<lastCall, params, ret, notToolVars>>

\* BasePlugin.SetMetadata(metadata): b.metadata = metadata
CallSetMetadata ==
    /\ lastCall = "none"
    /\ \E metadata \in Metadatas : owner' = [owner EXCEPT !.metadata = metadata]
    /\ UNCHANGED <<toolDef, lastCall, params, ret, notToolVars>>

\* BasePlugin.GetToolDefinition: the definition takes the plugin's name when
\* it has none, and is compiled
CallGetToolDefinition ==
    /\ lastCall = "none"
    /\ \E r \in GetToolDefinition(owner, toolDef) : ret' = r
    /\ toolDef' = namedDefinition(owner, toolDef)
    /\ lastCall' = "GetToolDefinition"
    /\ params' = EmptyMap
    /\ UNCHANGED <<owner, notToolVars>>

\* the validation of the generated Call:
\* ValidateToolParameters(t.Definition().Parameters, paramsMap)
CallValidateToolParameters ==
    /\ lastCall = "none"
    /\ \E args \in Arguments, tool \in Definition(owner, toolDef) :
           /\ ret' = [tool |-> tool,
                      err |-> ValidateToolParameters(tool.Parameters, args)]
           /\ toolDef' = namedDefinition(owner, toolDef)
           /\ lastCall' = "ValidateToolParameters"
           /\ params' = args
           /\ UNCHANGED <<owner, notToolVars>>

\* the generated Call(ctx, args): the arguments are decoded, validated
\* against Definition().Parameters, decoded into Params and executed; the
\* string of the result is the handler's.  Params and the handlers are
\* those of the definition the generator read, Definition() is that of the
\* config the plugin holds now
Call ==
    /\ lastCall = "none"
    /\ Generated(owner.generated)
    /\ \/ \E text \in CallTexts :
             /\ ~UnmarshalArguments(text).err.isNil
             /\ ret' = ToolFail("invalid arguments: "
                                \o UnmarshalArguments(text).err.msg)
             /\ toolDef' = toolDef
             /\ params' = EmptyMap
       \/ \E tool \in Definition(owner, toolDef),
             fields \in {collectParameters(owner.generated).params} :
             \E text \in CallTexts, result \in HandlerResults :
                LET decoded == UnmarshalArguments(text)
                    invalid == ValidateToolParameters(tool.Parameters,
                                                      decoded.map)
                    typed == UnmarshalParams(fields, text)
                IN  /\ decoded.err.isNil
                    /\ ret' =
                          [tool |-> tool,
                           err |-> IF ~invalid.isNil THEN invalid
                                   ELSE IF ~typed.err.isNil
                                   THEN Errorf("invalid arguments: "
                                               \o typed.err.msg)
                                   ELSE ToolExecute(owner.generated,
                                                    typed.Operation, result)]
                    /\ toolDef' = namedDefinition(owner, toolDef)
                    /\ params' = decoded.map
    /\ lastCall' = "Call"
    /\ UNCHANGED <<owner, notToolVars>>

\* the caller has taken the result of the call
Return ==
    /\ lastCall # "none"
    /\ lastCall' = "none"
    /\ params' = EmptyMap
    /\ ret' = NoReturn
    /\ UNCHANGED <<toolDef, owner, notToolVars>>

ToolNext ==
    \/ Return
    \/ CallValidateYAMLToolDefinition
    \/ CallToToolDefinition
    \/ CallValidateToolParametersWithOperations
    \/ CallSetPluginConfig
    \/ CallSetMetadata
    \/ CallGetToolDefinition
    \/ CallValidateToolParameters
    \/ Call

Spec == ToolInit /\ [][ToolNext]_vars

(***************************************************************************)
(* The file-type functions, applied to any accepted list, filename, media  *)
(* type and attachment list.                                               *)
(***************************************************************************)
FilesInit ==
    ToolIdle /\ FilesIdle /\ RpcIdle /\ ExpandIdle /\ SettingsIdle /\ BaseIdle
    /\ TemplatesIdle

CallIsFileTypeAccepted ==
    /\ fileCall = "none"
    /\ \E acceptedTypes \in AcceptedLists, filename \in Filenames,
          mimeType \in MimeTypes :
           /\ fileCall' = "IsFileTypeAccepted"
           /\ fileArgs' = [acceptedTypes |-> acceptedTypes, filename |-> filename,
                           mimeType |-> mimeType]
           /\ fileRet' = IsFileTypeAccepted(acceptedTypes, filename, mimeType)
           /\ UNCHANGED notFileVars

CallFilterFilesByAcceptedTypes ==
    /\ fileCall = "none"
    /\ \E files \in AttachmentLists, acceptedTypes \in FilterLists :
           /\ fileCall' = "FilterFilesByAcceptedTypes"
           /\ fileArgs' = [acceptedTypes |-> acceptedTypes, files |-> files]
           /\ fileRet' = FilterFilesByAcceptedTypes(files, acceptedTypes)
           /\ UNCHANGED notFileVars

ReturnFiles ==
    /\ fileCall # "none"
    /\ fileCall' = "none"
    /\ fileArgs' = NoFileArgs
    /\ fileRet' = FALSE
    /\ UNCHANGED notFileVars

FilesNext ==
    \/ ReturnFiles
    \/ CallIsFileTypeAccepted
    \/ CallFilterFilesByAcceptedTypes

SpecFiles == FilesInit /\ [][FilesNext]_vars

(***************************************************************************)
(* The RPC layer: a plugin is fixed; the host calls a dispatcher method    *)
(* directly or a proxy method over a transport that works or fails, the    *)
(* method returns and the host takes the result.  What the plugin's own    *)
(* state becomes is carried from call to call.                             *)
(***************************************************************************)
RpcInit ==
    /\ ToolIdle
    /\ FilesIdle
    /\ ExpandIdle
    /\ SettingsIdle
    /\ BaseIdle
    /\ TemplatesIdle
    /\ impl \in Plugins
    /\ rpcCall = "none"
    /\ rpcArgs = NoRequest
    /\ rpcRet = NoReply
    /\ invoked = <<>>

\* the call `method` with request `req` has returned `out`
Dispatched(method, req, out) ==
    /\ rpcCall' = method
    /\ rpcArgs' = req
    /\ rpcRet' = [resp |-> out.resp, err |-> out.err]
    /\ impl' = out.impl
    /\ invoked' = out.invoked
    /\ UNCHANGED notRpcVars

ServeCall ==
    /\ rpcCall = "none"
    /\ \E a \in ArgsJsons :
          LET req == [ArgsJson |-> a]
          IN  Dispatched("server.Call", req, ServerCall(impl, req))

ServeCallWithFiles ==
    /\ rpcCall = "none"
    /\ \E a \in ArgsJsons, f \in ProtoFiles :
          LET req == [ArgsJson |-> a, Files |-> f]
          IN  Dispatched("server.CallWithFiles", req, ServerCallWithFiles(impl, req))

ServeSetAgentContext ==
    /\ rpcCall = "none"
    /\ \E req \in AgentContextRequests :
          Dispatched("server.SetAgentContext", req, ServerSetAgentContext(impl, req))

ServeConfig ==
    /\ rpcCall = "none"
    /\ \E c \in ConfigJsons :
          LET req == [ConfigJson |-> c]
          IN  \/ Dispatched("server.ValidateConfig", req,
                            ServerValidateConfig(impl, req))
              \/ Dispatched("server.InitializeWithConfig", req,
                            ServerInitializeWithConfig(impl, req))

ServeWebPage ==
    /\ rpcCall = "none"
    /\ LET req == [Path |-> "index", Query |-> <<>>]
       IN  Dispatched("server.ServeWebPage", req, ServerServeWebPage(impl, req))

\* the dispatcher methods that take an Empty request
ServeEmpty ==
    /\ rpcCall = "none"
    /\ \/ Dispatched("server.GetDefinition", NoRequest,
                     ServerGetDefinition(impl, NoRequest))
       \/ Dispatched("server.GetVersion", NoRequest,
                     ServerGetVersion(impl, NoRequest))
       \/ Dispatched("server.GetDefaultSettings", NoRequest,
                     ServerGetDefaultSettings(impl, NoRequest))
       \/ Dispatched("server.GetRequiredConfig", NoRequest,
                     ServerGetRequiredConfig(impl, NoRequest))
       \/ Dispatched("server.GetMetadata", NoRequest,
                     ServerGetMetadata(impl, NoRequest))
       \/ Dispatched("server.GetCompatibilityInfo", NoRequest,
                     ServerGetCompatibilityInfo(impl, NoRequest))
       \/ Dispatched("server.GetWebPages", NoRequest,
                     ServerGetWebPages(impl, NoRequest))
       \/ Dispatched("server.GetOperations", NoRequest,
                     ServerGetOperations(impl, NoRequest))
       \/ Dispatched("server.AcceptsFiles", NoRequest,
                     ServerAcceptsFiles(impl, NoRequest))

ProxyCall ==
    /\ rpcCall = "none"
    /\ \E a \in ArgsJsons, up \in BOOLEAN :
          Dispatched("client.Call", [ArgsJson |-> a, transportUp |-> up],
                     ClientCall(impl, a, up))

ProxyCallWithFiles ==
    /\ rpcCall = "none"
    /\ \E a \in ArgsJsons, f \in ProtoFiles, up \in BOOLEAN :
          Dispatched("client.CallWithFiles",
                     [ArgsJson |-> a, Files |-> f, transportUp |-> up],
                     ClientCallWithFiles(impl, a, f, up))

ProxySetAgentContext ==
    /\ rpcCall = "none"
    /\ \E ctx \in AgentContexts, up \in BOOLEAN :
          Dispatched("client.SetAgentContext", [ctx |-> ctx, transportUp |-> up],
                     ClientSetAgentContext(impl, ctx, up))

\* the proxy methods that take no argument and return no error
ProxyLookup ==
    /\ rpcCall = "none"
    /\ \E up \in BOOLEAN :
          LET req == [transportUp |-> up]
          IN  \/ Dispatched("client.Definition", req, ClientDefinition(impl, up))
              \/ Dispatched("client.Version", req, ClientVersion(impl, up))
              \/ Dispatched("client.MinAgentVersion", req,
                            ClientMinAgentVersion(impl, up))
              \/ Dispatched("client.MaxAgentVersion", req,
                            ClientMaxAgentVersion(impl, up))
              \/ Dispatched("client.APIVersion", req, ClientAPIVersion(impl, up))

\* the host has taken the result; the plugin keeps its state
ReturnRpc ==
    /\ rpcCall # "none"
    /\ rpcCall' = "none"
    /\ rpcArgs' = NoRequest
    /\ rpcRet' = NoReply
    /\ invoked' = <<>>
    /\ UNCHANGED <<impl, notRpcVars>>

RpcNext ==
    \/ ReturnRpc
    \/ ServeCall
    \/ ServeCallWithFiles
    \/ ServeSetAgentContext
    \/ ServeConfig
    \/ ServeWebPage
    \/ ServeEmpty
    \/ ProxyCall
    \/ ProxyCallWithFiles
    \/ ProxySetAgentContext
    \/ ProxyLookup

SpecRpc == RpcInit /\ [][RpcNext]_vars

(***************************************************************************)
(* The expander: the host is fixed; the caller applies expandTemplates to  *)
(* a value or ToConfigVariables to a plugin configuration, the function    *)
(* returns and the caller takes the result.                                *)
(***************************************************************************)
ExpandInit ==
    /\ ToolIdle
    /\ FilesIdle
    /\ RpcIdle
    /\ SettingsIdle
    /\ BaseIdle
    /\ TemplatesIdle
    /\ hostState \in Hosts
    /\ expandCall = "none"
    /\ expandArgs = NoExpandArgs
    /\ expandRet = NoExpandReturn

\* the call returns; the values `result` had on the way are kept with it
CallExpandTemplates ==
    /\ expandCall = "none"
    /\ \E value \in TemplateValues :
          \E run \in expandTemplatesRuns(value, hostState) :
              /\ expandCall' = "expandTemplates"
              /\ expandArgs' = [value |-> value]
              /\ expandRet' = run
    /\ UNCHANGED <<hostState, notExpandVars>>

CallToConfigVariables ==
    /\ expandCall = "none"
    /\ \E c \in PluginConfigs :
          \E result \in ToConfigVariables(c, hostState) :
              /\ expandCall' = "ToConfigVariables"
              /\ expandArgs' = [config |-> c]
              /\ expandRet' = [value |-> result]
    /\ UNCHANGED <<hostState, notExpandVars>>

ReturnExpand ==
    /\ expandCall # "none"
    /\ expandCall' = "none"
    /\ expandArgs' = NoExpandArgs
    /\ expandRet' = NoExpandReturn
    /\ UNCHANGED <<hostState, notExpandVars>>

ExpandNext ==
    \/ ReturnExpand
    \/ CallExpandTemplates
    \/ CallToConfigVariables

SpecExpand == ExpandInit /\ [][ExpandNext]_vars

(***************************************************************************)
(* The settings manager: the disk holds whatever was left there; the       *)
(* program creates a manager and calls its methods one at a time (the      *)
(* manager's lock serialises them), each save succeeding or failing at one *)
(* of its steps.                                                           *)
(***************************************************************************)
SettingsInit ==
    /\ ToolIdle
    /\ FilesIdle
    /\ RpcIdle
    /\ ExpandIdle
    /\ BaseIdle
    /\ TemplatesIdle
    /\ disk \in Disks
    /\ manager = NilManager
    /\ settingsCall = "none"
    /\ settingsArgs = NoSettingsArgs
    /\ settingsRet = NoSettingsReturn

\* the method has returned (or panicked) with outcome out
SettingsCalled(method, args, out) ==
    /\ settingsCall' = method
    /\ settingsArgs' = args
    /\ settingsRet' = [value |-> out.value, err |-> out.err,
                       panicked |-> out.panicked]
    /\ manager' = out.sm
    /\ disk' = out.disk
    /\ UNCHANGED notSettingsVars

\* the program keeps the manager it had when the constructor fails
CallNewSettingsManager ==
    /\ settingsCall = "none"
    /\ \E agentDir \in AgentDirs, pluginName \in PluginNames,
          readFails \in BOOLEAN :
          LET out == NewSettingsManager(agentDir, pluginName, disk, readFails)
          IN  SettingsCalled("NewSettingsManager",
                             [agentDir |-> agentDir, pluginName |-> pluginName],
                             IF out.err.isNil THEN out
                             ELSE [out EXCEPT !.sm = manager])

CallGet ==
    /\ settingsCall = "none"
    /\ ~manager.isNil
    /\ \E key \in SettingKeys :
          SettingsCalled("Get", [key |-> key], ManagerGet(manager, disk, key))

CallGetAll ==
    /\ settingsCall = "none"
    /\ ~manager.isNil
    /\ SettingsCalled("GetAll", NoSettingsArgs, ManagerGetAll(manager, disk))

CallSet ==
    /\ settingsCall = "none"
    /\ ~manager.isNil
    /\ \E key \in SettingKeys, value \in SettingValues, fault \in SaveFaults :
          SettingsCalled("Set", [key |-> key, value |-> value, fault |-> fault],
                         ManagerSet(manager, disk, key, value, fault))

CallDelete ==
    /\ settingsCall = "none"
    /\ ~manager.isNil
    /\ \E key \in SettingKeys, fault \in SaveFaults :
          SettingsCalled("Delete", [key |-> key, fault |-> fault],
                         ManagerDelete(manager, disk, key, fault))

CallSave ==
    /\ settingsCall = "none"
    /\ ~manager.isNil
    /\ \E fault \in SaveFaults :
          SettingsCalled("Save", [key |-> "", fault |-> fault],
                         ManagerSave(manager, disk, fault))

CallLoad ==
    /\ settingsCall = "none"
    /\ ~manager.isNil
    /\ \E readFails \in BOOLEAN :
          SettingsCalled("Load", [key |-> "", readFails |-> readFails],
                         ManagerLoad(manager, disk, readFails))

ReturnSettings ==
    /\ settingsCall # "none"
    /\ settingsCall' = "none"
    /\ settingsArgs' = NoSettingsArgs
    /\ settingsRet' = NoSettingsReturn
    /\ UNCHANGED <<disk, manager, notSettingsVars>>

SettingsNext ==
    \/ ReturnSettings
    \/ CallNewSettingsManager
    \/ CallGet
    \/ CallGetAll
    \/ CallSet
    \/ CallDelete
    \/ CallSave
    \/ CallLoad

SpecSettings == SettingsInit /\ [][SettingsNext]_vars

(***************************************************************************)
(* The state machine of BasePlugin: goroutines run Settings() statement by *)
(* statement while others store agent contexts and metadata.               *)
(***************************************************************************)

BaseInit ==
    /\ ToolIdle
    /\ FilesIdle
    /\ RpcIdle
    /\ ExpandIdle
    /\ SettingsIdle
    /\ TemplatesIdle
    /\ basePlugin = BasePluginValue
    /\ frames = [g \in Goroutines |-> NoFrame]
    /\ heap = <<>>
    /\ history = [dirWasSet |-> FALSE, returned |-> {}]
    /\ baseDisk \in BaseDisks

\* goroutine g moves to statement pc
Goto(g, pc) == frames' = [frames EXCEPT ![g].pc = pc]

\* b.agentContext = ctx begins: the fields are written one word at a time
BeginSetAgentContext ==
    /\ basePlugin.storing = <<>>
    /\ \E dir \in ContextDirs :
          /\ basePlugin' = [basePlugin EXCEPT !.storing = <<dir>>]
          /\ history' = [history EXCEPT !.dirWasSet = @ \/ dir # ""]
          /\ frames' = [g \in Goroutines |->
                          IF frames[g].pc = "idle" THEN frames[g]
                          ELSE [frames[g] EXCEPT !.emptyDir = @ /\ dir = ""]]
    /\ UNCHANGED <<heap, baseDisk, notBaseVars>>

\* b.agentContext = ctx is complete
EndSetAgentContext ==
    /\ basePlugin.storing # <<>>
    /\ basePlugin' = [basePlugin EXCEPT !.agentDir = basePlugin.storing[1], !.storing = <<>>]
    /\ UNCHANGED <<frames, heap, history, baseDisk, notBaseVars>>

\* b.metadata = metadata
SetMetadata ==
    /\ \E metadata \in MetadataValues :
          /\ metadata # basePlugin.metadata
          /\ basePlugin' = [basePlugin EXCEPT !.metadata = metadata]
    /\ UNCHANGED <<frames, heap, history, baseDisk, notBaseVars>>

\* a goroutine calls b.Settings()
InvokeSettings(g) ==
    /\ frames[g].pc = "idle"
    /\ frames' = [frames EXCEPT ![g] = [NoFrame EXCEPT
                       !.pc = "lock",
                       !.seen = history.returned,
                       !.emptyDir = /\ basePlugin.agentDir = ""
                                    /\ basePlugin.storing \in {<<>>, <<"">>}]]
    /\ UNCHANGED <<basePlugin, heap, history, baseDisk, notBaseVars>>

\* b.settingsMu.Lock()
Lock(g) ==
    /\ frames[g].pc = "lock"
    /\ CanLock(basePlugin)
    /\ basePlugin' = [basePlugin EXCEPT !.settingsMu = g]
    /\ Goto(g, "manager")
    /\ UNCHANGED <<heap, history, baseDisk, notBaseVars>>

\* if b.settingsManager != nil { return b.settingsManager }
CheckManager(g) ==
    /\ frames[g].pc = "manager"
    /\ frames' = [frames EXCEPT
                    ![g].pc = IF basePlugin.settingsManager # 0 THEN "unlock"
                              ELSE "agentDir",
                    ![g].sm = basePlugin.settingsManager,
                    ![g].existing = basePlugin.settingsManager # 0]
    /\ UNCHANGED <<basePlugin, heap, history, baseDisk, notBaseVars>>

\* if b.agentContext.AgentDir == "" { return nil }
CheckAgentDir(g) ==
    /\ frames[g].pc = "agentDir"
    /\ \E dir \in ReadAgentDir(basePlugin) :
          Goto(g, IF dir = "" THEN "unlock" ELSE "metadata")
    /\ UNCHANGED <<basePlugin, heap, history, baseDisk, notBaseVars>>

\* pluginName := "unknown"; if b.metadata != nil && ...
CheckMetadata(g) ==
    /\ frames[g].pc = "metadata"
    /\ frames' = [frames EXCEPT
                    ![g].pc = IF basePlugin.metadata.isNil THEN "create" ELSE "name",
                    ![g].pluginName = "unknown"]
    /\ UNCHANGED <<basePlugin, heap, history, baseDisk, notBaseVars>>

\* ... && b.metadata.Name != "": b.metadata is read again and may be nil now
CheckName(g) ==
    /\ frames[g].pc = "name"
    /\ frames' = [frames EXCEPT
                    ![g].pc = IF basePlugin.metadata.isNil THEN "unlock"
                              ELSE IF basePlugin.metadata.Name # "" THEN "assign"
                              ELSE "create",
                    ![g].panicked = basePlugin.metadata.isNil]
    /\ UNCHANGED <<basePlugin, heap, history, baseDisk, notBaseVars>>

\* pluginName = b.metadata.Name
AssignName(g) ==
    /\ frames[g].pc = "assign"
    /\ frames' = [frames EXCEPT
                    ![g].pc = IF basePlugin.metadata.isNil THEN "unlock" ELSE "create",
                    ![g].pluginName = IF basePlugin.metadata.isNil THEN @
                                      ELSE basePlugin.metadata.Name,
                    ![g].panicked = basePlugin.metadata.isNil]
    /\ UNCHANGED <<basePlugin, heap, history, baseDisk, notBaseVars>>

\* sm, err := NewSettingsManager(b.agentContext.AgentDir, pluginName);
\* if err != nil { return nil }; b.settingsManager = sm
Create(g) ==
    /\ frames[g].pc = "create"
    /\ Len(heap) < MaxManagers
    /\ \E dir \in ReadAgentDir(basePlugin), readFails \in BOOLEAN :
          LET out == NewSettingsManager(dir, frames[g].pluginName, baseDisk,
                                        readFails)
          IN  IF dir = TornString
              THEN /\ frames' = [frames EXCEPT ![g].pc = "unlock",
                                               ![g].panicked = TRUE]
                   /\ UNCHANGED <<basePlugin, heap>>
              ELSE IF ~out.err.isNil
              THEN /\ frames' = [frames EXCEPT ![g].pc = "unlock", ![g].sm = 0]
                   /\ UNCHANGED <<basePlugin, heap>>
              ELSE /\ heap' = Append(heap, out.sm)
                   /\ basePlugin' = [basePlugin EXCEPT !.settingsManager = Len(heap) + 1]
                   /\ frames' = [frames EXCEPT ![g].pc = "unlock",
                                               ![g].sm = Len(heap) + 1]
    /\ UNCHANGED <<history, baseDisk, notBaseVars>>

\* defer b.settingsMu.Unlock()
Unlock(g) ==
    /\ frames[g].pc = "unlock"
    /\ basePlugin' = [basePlugin EXCEPT !.settingsMu = 0]
    /\ Goto(g, "return")
    /\ UNCHANGED <<heap, history, baseDisk, notBaseVars>>

\* the caller has the result (or the panic)
ReturnFromSettings(g) ==
    /\ frames[g].pc = "return"
    /\ frames' = [frames EXCEPT ![g].pc = "idle", ![g].returned = TRUE]
    /\ history' = [history EXCEPT
                     !.returned = IF frames[g].panicked \/ frames[g].sm = 0
                                  THEN @ ELSE @ \cup {frames[g].sm}]
    /\ UNCHANGED <<basePlugin, heap, baseDisk, notBaseVars>>

BaseNext ==
    \/ BeginSetAgentContext
    \/ EndSetAgentContext
    \/ SetMetadata
    \/ \E g \in Goroutines :
          \/ InvokeSettings(g)
          \/ Lock(g)
          \/ CheckManager(g)
          \/ CheckAgentDir(g)
          \/ CheckMetadata(g)
          \/ CheckName(g)
          \/ AssignName(g)
          \/ Create(g)
          \/ Unlock(g)
          \/ ReturnFromSettings(g)

SpecBase == BaseInit /\ [][BaseNext]_vars

(***************************************************************************)
(* The state machine of the TemplateRenderer: goroutines run               *)
(* RenderTemplate and ClearCache statement by statement.                   *)
(***************************************************************************)

TemplatesInit ==
    /\ ToolIdle
    /\ FilesIdle
    /\ RpcIdle
    /\ ExpandIdle
    /\ SettingsIdle
    /\ BaseIdle
    /\ renderer = NewTemplateRenderer
    /\ renders = [g \in Renderers |-> NoRender]
    /\ activity = NoActivity
    /\ templateFS \in TemplateFiles

\* goroutine g moves to statement pc
Step(g, pc) == renders' = [renders EXCEPT ![g].pc = pc]

\* the error of getOrParseTemplate or getOrParseTemplateWithLayout as
\* RenderTemplate and RenderTemplateWithLayout return it
parseFailure(frame) ==
    IF frame.layoutName = ""
    THEN Errorf("failed to parse template " \o Quote(frame.templateName)
                \o ": " \o frame.err.msg)
    ELSE Errorf("failed to parse templates: " \o frame.err.msg)

\* the error of tmpl.Execute, which depends on the data, as they return it
ExecuteError == "template: error calling a function of the data"
executeFailure(frame) ==
    IF frame.layoutName = ""
    THEN Errorf("failed to execute template " \o Quote(frame.templateName)
                \o ": " \o ExecuteError)
    ELSE Errorf("failed to execute template: " \o ExecuteError)

\* a goroutine calls r.RenderTemplate(templateFS, templateName, data)
InvokeRenderTemplate(g) ==
    /\ renders[g].pc = "idle"
    /\ \E name \in TemplateNames :
          /\ activity[name].reads < MaxReads
          /\ renders' = [renders EXCEPT ![g] = [NoRender EXCEPT
                            !.pc = "rlock", !.templateName = name,
                            !.cacheKey = name]]
    /\ UNCHANGED <<renderer, activity, templateFS, notTemplateVars>>

\* a goroutine calls r.RenderTemplateWithLayout(templateFS, layoutName,
\* templateName, data)
InvokeRenderTemplateWithLayout(g) ==
    /\ renders[g].pc = "idle"
    /\ \E pair \in LayoutPairs :
          /\ activity[LayoutKey(pair[1], pair[2])].reads < MaxReads
          /\ renders' = [renders EXCEPT ![g] = [NoRender EXCEPT
                            !.pc = "rlock", !.layoutName = pair[1],
                            !.templateName = pair[2],
                            !.cacheKey = LayoutKey(pair[1], pair[2])]]
    /\ UNCHANGED <<renderer, activity, templateFS, notTemplateVars>>

\* r.mu.RLock()
RLock(g) ==
    /\ renders[g].pc = "rlock"
    /\ CanRLock(renderer)
    /\ renderer' = [renderer EXCEPT !.mu.readers = @ \cup {g}]
    /\ Step(g, "lookup")
    /\ UNCHANGED <<activity, templateFS, notTemplateVars>>

\* if tmpl, exists := r.cache[templateName]; exists (r.cache[cacheKey] with a
\* layout)
Lookup(g) ==
    /\ renders[g].pc = "lookup"
    /\ LET name == renders[g].cacheKey
       IN  renders' = [renders EXCEPT
                         ![g].pc = IF name \in DOMAIN renderer.cache
                                   THEN "runlock hit" ELSE "runlock miss",
                         ![g].tmpl = IF name \in DOMAIN renderer.cache
                                     THEN renderer.cache[name] ELSE @]
    /\ UNCHANGED <<renderer, activity, templateFS, notTemplateVars>>

\* r.mu.RUnlock(), then return tmpl, nil or go on to r.mu.Lock()
RUnlock(g) ==
    /\ renders[g].pc \in {"runlock hit", "runlock miss"}
    /\ renderer' = [renderer EXCEPT !.mu.readers = @ \ {g}]
    /\ Step(g, IF renders[g].pc = "runlock hit" THEN "execute" ELSE "lock")
    /\ UNCHANGED <<activity, templateFS, notTemplateVars>>

\* r.mu.Lock()
WLock(g) ==
    /\ renders[g].pc = "lock"
    /\ CanWLock(renderer)
    /\ renderer' = [renderer EXCEPT !.mu.writer = g]
    /\ Step(g, "recheck")
    /\ UNCHANGED <<activity, templateFS, notTemplateVars>>

\* the double check: if tmpl, exists := r.cache[templateName]; exists
Recheck(g) ==
    /\ renders[g].pc = "recheck"
    /\ LET name == renders[g].cacheKey
       IN  renders' = [renders EXCEPT
                         ![g].pc = IF ~StillMissing(renderer, name) THEN "unlock"
                                   ELSE IF renders[g].layoutName = "" THEN "read"
                                   ELSE "read layout",
                         ![g].tmpl = IF StillMissing(renderer, name)
                                     THEN @ ELSE renderer.cache[name]]
    /\ UNCHANGED <<renderer, activity, templateFS, notTemplateVars>>

\* layoutContent, err := fs.ReadFile(templateFS, layoutName)
ReadLayout(g) ==
    /\ renders[g].pc = "read layout"
    /\ LET out == ReadFile(templateFS, renders[g].layoutName)
       IN  /\ renders' = [renders EXCEPT
                            ![g].pc = IF out.err.isNil THEN "read" ELSE "unlock",
                            ![g].layoutContent = out.content,
                            ![g].err = IF out.err.isNil THEN NilError
                                       ELSE Errorf("failed to read layout file: "
                                                   \o out.err.msg)]
           /\ activity' = [activity EXCEPT ![renders[g].cacheKey].reads = @ + 1]
    /\ UNCHANGED <<renderer, templateFS, notTemplateVars>>

\* content, err := fs.ReadFile(templateFS, templateName); the reads of a
\* call with a layout are counted once, at the layout
Read(g) ==
    /\ renders[g].pc = "read"
    /\ LET name == renders[g].templateName
           out == ReadFile(templateFS, name)
       IN  /\ renders' = [renders EXCEPT
                            ![g].pc = IF ~out.err.isNil THEN "unlock"
                                      ELSE IF renders[g].layoutName = ""
                                      THEN "parse" ELSE "parse layout",
                            ![g].content = out.content,
                            ![g].err = IF out.err.isNil THEN NilError
                                       ELSE Errorf("failed to read template file: "
                                                   \o out.err.msg)]
           /\ activity' = IF renders[g].layoutName = ""
                          THEN [activity EXCEPT ![name].reads = @ + 1]
                          ELSE activity
    /\ UNCHANGED <<renderer, templateFS, notTemplateVars>>

\* tmpl, err := template.New(layoutName).Parse(string(layoutContent))
ParseLayout(g) ==
    /\ renders[g].pc = "parse layout"
    /\ LET out == Parse(renders[g].layoutName, renders[g].layoutContent)
       IN  /\ renders' = [renders EXCEPT
                            ![g].pc = IF out.err.isNil THEN "parse" ELSE "unlock",
                            ![g].tmpl = IF out.err.isNil THEN out.tmpl ELSE @,
                            ![g].err = IF out.err.isNil THEN NilError
                                       ELSE Errorf("failed to parse layout: "
                                                   \o out.err.msg)]
           /\ activity' = [activity EXCEPT ![renders[g].cacheKey].parses = @ + 1]
    /\ UNCHANGED <<renderer, templateFS, notTemplateVars>>

\* tmpl, err := template.New(templateName).Parse(string(content)), or
\* tmpl, err = tmpl.New(templateName).Parse(string(templateContent)) on the
\* parsed layout; the parses of a call with a layout are counted once, at
\* the layout
ParseContent(g) ==
    /\ renders[g].pc = "parse"
    /\ LET name == renders[g].templateName
           out == Parse(name, renders[g].content)
           parsed == IF renders[g].layoutName = "" THEN out.tmpl
                     ELSE LayoutTemplate(renders[g].layoutName,
                                         renders[g].layoutContent,
                                         name, renders[g].content)
       IN  /\ renders' = [renders EXCEPT
                            ![g].pc = IF out.err.isNil THEN "store" ELSE "unlock",
                            ![g].tmpl = IF out.err.isNil THEN parsed ELSE @,
                            ![g].err = IF out.err.isNil THEN NilError
                                       ELSE Errorf("failed to parse template: "
                                                   \o out.err.msg)]
           /\ activity' = IF renders[g].layoutName = ""
                          THEN [activity EXCEPT ![name].parses = @ + 1]
                          ELSE activity
    /\ UNCHANGED <<renderer, templateFS, notTemplateVars>>

\* r.cache[templateName] = tmpl (r.cache[cacheKey] = tmpl with a layout)
Store(g) ==
    /\ renders[g].pc = "store"
    /\ LET name == renders[g].cacheKey
       IN  /\ renderer' = [renderer EXCEPT
                             !.cache = Put(@, name, renders[g].tmpl)]
           /\ activity' = [activity EXCEPT ![name].stored = @ + 1]
    /\ Step(g, "unlock")
    /\ UNCHANGED <<templateFS, notTemplateVars>>

\* defer r.mu.Unlock() of getOrParseTemplate
WUnlock(g) ==
    /\ renders[g].pc = "unlock"
    /\ renderer' = [renderer EXCEPT !.mu.writer = 0]
    /\ renders' = [renders EXCEPT
                     ![g].pc = IF renders[g].err.isNil THEN "execute" ELSE "failed",
                     ![g].err = IF renders[g].err.isNil THEN NilError
                                ELSE parseFailure(renders[g])]
    /\ UNCHANGED <<activity, templateFS, notTemplateVars>>

\* tmpl.Execute(&buf, data) succeeds or fails on the data
Execute(g) ==
    /\ renders[g].pc = "execute"
    /\ \E fails \in BOOLEAN :
          renders' = [renders EXCEPT
                        ![g].pc = IF fails THEN "failed" ELSE "rendered",
                        ![g].err = IF fails THEN executeFailure(renders[g])
                                   ELSE NilError]
    /\ UNCHANGED <<renderer, activity, templateFS, notTemplateVars>>

\* the caller has the page or the error
ReturnFromRender(g) ==
    /\ renders[g].pc \in {"rendered", "failed"}
    /\ renders' = [renders EXCEPT ![g] = NoRender]
    /\ UNCHANGED <<renderer, activity, templateFS, notTemplateVars>>

\* a goroutine calls r.ClearCache()
InvokeClearCache(g) ==
    /\ renders[g].pc = "idle"
    /\ renders' = [renders EXCEPT ![g] = [NoRender EXCEPT !.pc = "clear lock"]]
    /\ UNCHANGED <<renderer, activity, templateFS, notTemplateVars>>

\* r.mu.Lock() of ClearCache
ClearLock(g) ==
    /\ renders[g].pc = "clear lock"
    /\ CanWLock(renderer)
    /\ renderer' = [renderer EXCEPT !.mu.writer = g]
    /\ Step(g, "clear")
    /\ UNCHANGED <<activity, templateFS, notTemplateVars>>

\* r.cache = make(map[string]*template.Template)
Clear(g) ==
    /\ renders[g].pc = "clear"
    /\ renderer' = [renderer EXCEPT !.cache = EmptyMap]
    /\ activity' = NoActivity
    /\ Step(g, "cleared")
    /\ UNCHANGED <<templateFS, notTemplateVars>>

\* defer r.mu.Unlock() of ClearCache, and the return
ClearUnlock(g) ==
    /\ renders[g].pc = "cleared"
    /\ renderer' = [renderer EXCEPT !.mu.writer = 0]
    /\ renders' = [renders EXCEPT ![g] = NoRender]
    /\ UNCHANGED <<activity, templateFS, notTemplateVars>>

TemplatesNext ==
    \E g \in Renderers :
        \/ InvokeRenderTemplate(g)
        \/ InvokeRenderTemplateWithLayout(g)
        \/ RLock(g)
        \/ Lookup(g)
        \/ RUnlock(g)
        \/ WLock(g)
        \/ Recheck(g)
        \/ ReadLayout(g)
        \/ Read(g)
        \/ ParseLayout(g)
        \/ ParseContent(g)
        \/ Store(g)
        \/ WUnlock(g)
        \/ Execute(g)
        \/ ReturnFromRender(g)
        \/ InvokeClearCache(g)
        \/ ClearLock(g)
        \/ Clear(g)
        \/ ClearUnlock(g)

SpecTemplates == TemplatesInit /\ [][TemplatesNext]_vars

----------------------------------------------------------------------------
(***************************************************************************)
(* Properties of ValidateToolParametersWithOperations.                     *)
(***************************************************************************)

After(function) == lastCall = function

HasOperations(def) == ~def.isNil /\ DOMAIN def.Operations # {}
IsFlat(def) == ~def.isNil /\ DOMAIN def.Operations = {}

\* the call's "operation" argument is a string
OperationIsString == "operation" \in DOMAIN params /\ params["operation"].kind = "string"
OperationArgument == params["operation"].str

\* a parameter's value as the specification counts it missing: absent, nil,
\* or the empty string for a parameter declared with type string
CountsAsMissing(p, args) ==
    \/ p.Name \notin DOMAIN args
    \/ args[p.Name] = Nil
    \/ p.Type = "string" /\ args[p.Name] = StrV("")

\* the required parameters a call must supply, in the order they are checked:
\* those of the base list other than "operation", then those of the list ps
GlobalRequired(def) ==
    SelectSeq(def.Parameters, LAMBDA p : p.Required /\ p.Name # "operation")
OwnRequired(ps) == SelectSeq(ps, LAMBDA p : p.Required)

NoneMissing(ps, args) == \A i \in DOMAIN ps : ~CountsAsMissing(ps[i], args)

\* the operation selected by the call is a key of the operations map
SelectsOperation ==
    /\ After("ValidateToolParametersWithOperations")
    /\ HasOperations(toolDef)
    /\ OperationIsString
    /\ OperationArgument \in DOMAIN toolDef.Operations

AcceptsIffRequiredPresent ==
    ret.err.isNil <=>
        /\ NoneMissing(GlobalRequired(toolDef), params)
        /\ NoneMissing(OwnRequired(toolDef.Operations[OperationArgument].Parameters),
                       params)

\* C1 as stated: whenever the operation argument is a string naming a key of
\* the operations map, the call is accepted exactly when every required base
\* parameter other than "operation" and every required parameter of that
\* operation is present and not missing.
C1_AsStated == SelectsOperation => AcceptsIffRequiredPresent

\* C1 (amended): whenever the operation argument is a non-empty string naming
\* a key of the operations map, the call is accepted exactly when every
\* required base parameter other than "operation" and every required
\* parameter of that operation is present and not missing; parameters
\* required only by other operations never cause a rejection.
C1_AcceptsExactlyWhenRequiredPresent ==
    (SelectsOperation /\ OperationArgument # "") => AcceptsIffRequiredPresent

\* a call is accepted although another operation requires a parameter the
\* call does not supply
C1_Witness ==
    /\ SelectsOperation
    /\ OperationArgument # ""
    /\ ret.err.isNil
    /\ \E n \in DOMAIN toolDef.Operations \ {OperationArgument} :
          ~NoneMissing(OwnRequired(toolDef.Operations[n].Parameters), params)

\* the operation checks apply: the definition has operations
ChecksOperation ==
    /\ After("ValidateToolParametersWithOperations")
    /\ HasOperations(toolDef)

\* the "operation" argument passes the presence check
OperationPresent == OperationIsString /\ OperationArgument # ""

RejectedWith(message) == ~ret.err.isNil /\ ret.err.msg = message

\* the enum declared by the base list's "operation" parameter (the first
\* parameter of that name), empty when there is none
BaseOperationEnum(def) ==
    LET named == {i \in DOMAIN def.Parameters : def.Parameters[i].Name = "operation"}
    IN  IF named = {} THEN <<>>
        ELSE def.Parameters[CHOOSE i \in named : \A j \in named : i <= j].Enum

InExplicitEnum(def, value) == value \in Range(BaseOperationEnum(def))

\* C2: with operations declared, a call whose operation argument is absent,
\* not a string or empty is rejected with "required field 'operation' is
\* missing"; a call that passes that check is rejected with "unknown
\* operation: <value>" exactly when the value is neither a key of the
\* operations map nor in the explicit enum of the base operation parameter;
\* a value found only in that enum is checked against the globally required
\* parameters only.
C2_OperationChecks ==
    ChecksOperation =>
        /\ ~OperationPresent => RejectedWith("required field 'operation' is missing")
        /\ OperationPresent =>
            /\ RejectedWith("unknown operation: " \o OperationArgument)
                <=> /\ OperationArgument \notin DOMAIN toolDef.Operations
                    /\ ~InExplicitEnum(toolDef, OperationArgument)
            /\ ( /\ OperationArgument \notin DOMAIN toolDef.Operations
                 /\ InExplicitEnum(toolDef, OperationArgument) )
                => (ret.err.isNil <=> NoneMissing(GlobalRequired(toolDef), params))

\* a call naming an operation found only in the explicit enum is accepted
\* although a declared operation requires a parameter the call lacks
C2_Witness ==
    /\ ChecksOperation
    /\ OperationPresent
    /\ OperationArgument \notin DOMAIN toolDef.Operations
    /\ InExplicitEnum(toolDef, OperationArgument)
    /\ ret.err.isNil
    /\ \E n \in DOMAIN toolDef.Operations :
          ~NoneMissing(OwnRequired(toolDef.Operations[n].Parameters), params)

\* the required parameters checked for the call, in the order of the claim
CheckedRequired ==
    GlobalRequired(toolDef)
    \o (IF OperationArgument \in DOMAIN toolDef.Operations
        THEN OwnRequired(toolDef.Operations[OperationArgument].Parameters)
        ELSE <<>>)

FirstMissing(ps, args) ==
    LET missing == {i \in DOMAIN ps : CountsAsMissing(ps[i], args)}
    IN  ps[CHOOSE i \in missing : \A j \in missing : i <= j].Name

IsKnownOperation ==
    \/ OperationArgument \in DOMAIN toolDef.Operations
    \/ InExplicitEnum(toolDef, OperationArgument)

\* C3: the operation-presence check and the unknown-operation check come
\* before any required-field check, so an unknown operation is reported even
\* when required fields are missing; a missing-field rejection names the first
\* offender among the required base parameters in declaration order followed
\* by the required parameters of the selected operation in declaration order.
C3_FirstFailureWins ==
    ChecksOperation =>
        /\ ~OperationPresent => RejectedWith("required field 'operation' is missing")
        /\ (OperationPresent /\ ~IsKnownOperation)
            => RejectedWith("unknown operation: " \o OperationArgument)
        /\ (OperationPresent /\ IsKnownOperation
                /\ ~NoneMissing(CheckedRequired, params))
            => RejectedWith("required field '" \o FirstMissing(CheckedRequired, params)
                            \o "' is missing")

\* a base parameter and a parameter of the selected operation are both
\* missing, under different names, and the rejection names the base one
C3_Witness ==
    /\ ChecksOperation
    /\ OperationPresent
    /\ OperationArgument \in DOMAIN toolDef.Operations
    /\ ~NoneMissing(GlobalRequired(toolDef), params)
    /\ ~NoneMissing(OwnRequired(toolDef.Operations[OperationArgument].Parameters),
                    params)
    /\ FirstMissing(GlobalRequired(toolDef), params)
        # FirstMissing(OwnRequired(toolDef.Operations[OperationArgument].Parameters),
                       params)
    /\ RejectedWith("required field '" \o FirstMissing(GlobalRequired(toolDef), params)
                    \o "' is missing")

\* an unknown operation is reported although a required field is missing
C3_WitnessUnknown ==
    /\ ChecksOperation
    /\ OperationPresent
    /\ ~IsKnownOperation
    /\ ~NoneMissing(GlobalRequired(toolDef), params)
    /\ RejectedWith("unknown operation: " \o OperationArgument)

\* the call reaches the required-field checks
ReachesRequiredChecks ==
    /\ After("ValidateToolParametersWithOperations")
    /\ \/ IsFlat(toolDef)
       \/ HasOperations(toolDef) /\ OperationPresent /\ IsKnownOperation

AllRequired ==
    IF IsFlat(toolDef) THEN OwnRequired(toolDef.Parameters) ELSE CheckedRequired

\* C4: a required parameter counts as missing only if its key is absent, its
\* value is nil, or it is declared with type string and the value is the empty
\* string: a call that reaches the required-field checks is accepted exactly
\* when no required parameter is missing in that sense, so a required integer
\* or number with value 0 and a required boolean with value false are accepted.
C4_MissingOnlyAbsentNilOrEmptyString ==
    ReachesRequiredChecks => (ret.err.isNil <=> NoneMissing(AllRequired, params))

ZeroValues == {IntV(0), Int64V(0), Float64V(0), Float32V(0), BoolV(FALSE)}

\* a call is accepted whose required integer, number or boolean parameter has
\* the value 0, 0.0 or false
C4_Witness ==
    /\ ReachesRequiredChecks
    /\ ret.err.isNil
    /\ \E i \in DOMAIN AllRequired :
          /\ AllRequired[i].Type \in {"integer", "number", "boolean"}
          /\ AllRequired[i].Name \in DOMAIN params
          /\ params[AllRequired[i].Name] \in ZeroValues

----------------------------------------------------------------------------
(***************************************************************************)
(* The two call-time validators compared.                                  *)
(***************************************************************************)

\* a flat definition was compiled and the call validated against its schema
ValidatedAgainstFlatSchema ==
    /\ After("ValidateToolParameters")
    /\ IsFlat(toolDef)
    /\ \E r \in ToToolDefinition(toolDef) : r.err.isNil /\ ret.tool = r.tool

\* C5 as stated: for a definition without operations, validating against the
\* compiled schema gives the same decision as
\* ValidateToolParametersWithOperations, and both accept exactly when no
\* required parameter is absent, nil or (for a string parameter) empty, so a
\* required integer or number with value 0 is accepted by both.
C5_AsStated ==
    ValidatedAgainstFlatSchema =>
        /\ ret.err.isNil
            <=> ValidateToolParametersWithOperations(toolDef, params).isNil
        /\ ret.err.isNil <=> NoneMissing(OwnRequired(toolDef.Parameters), params)

----------------------------------------------------------------------------
(***************************************************************************)
(* Properties of the schema compiler and of definition-time validation.    *)
(***************************************************************************)

\* every parameter declared in the base list or in an operation's list
Declared(def) ==
    Range(def.Parameters)
    \cup UNION {Range(def.Operations[n].Parameters) : n \in DOMAIN def.Operations}

DeclaredNames(def) == {p.Name : p \in Declared(def)}

\* ToToolDefinition has returned a Tool for a definition with operations
CompiledWithOperations ==
    /\ After("ToToolDefinition")
    /\ HasOperations(toolDef)
    /\ ret.err.isNil

CompiledFlat ==
    /\ After("ToToolDefinition")
    /\ IsFlat(toolDef)
    /\ ret.err.isNil

Schema == ret.tool.Parameters

\* C6: for an operation-style definition that compiles, the keys of the
\* compiled schema's properties are exactly the parameter names of the base
\* list and of every operation's list, and the schema has no oneOf member.
C6_PropertiesAreTheUnion ==
    CompiledWithOperations =>
        /\ DOMAIN Schema["properties"] = DeclaredNames(toolDef)
        /\ "oneOf" \notin DOMAIN Schema

\* a compiled schema holds a property declared only by an operation and one
\* declared only by the base list
C6_Witness ==
    /\ CompiledWithOperations
    /\ \E n \in DOMAIN Schema["properties"] :
          n \notin {p.Name : p \in Range(toolDef.Parameters)}
    /\ \E n \in DOMAIN Schema["properties"] :
          \A o \in DOMAIN toolDef.Operations :
              n \notin {p.Name : p \in Range(toolDef.Operations[o].Parameters)}

\* two declarations of one name with different types
ConflictingPairs(def) ==
    {pq \in Declared(def) \X Declared(def) :
        pq[1].Name = pq[2].Name /\ pq[1].Type # pq[2].Type}

HasConflict(def) == ~def.isNil /\ ConflictingPairs(def) # {}

\* the error names a repeated parameter and both of its types
IsConflictError(e, def) ==
    /\ ~e.isNil
    /\ \E pq \in ConflictingPairs(def) :
          e.msg = "parameter \"" \o pq[1].Name \o "\" has conflicting types: "
                  \o pq[1].Type \o " vs " \o pq[2].Type

\* C7 as stated: if a name is declared with two different types anywhere among
\* the base list and the operations' lists, ToToolDefinition fails with a
\* conflicting-types error naming both types and ValidateYAMLToolDefinition
\* rejects the definition.
C7_AsStated ==
    HasConflict(toolDef) =>
        /\ After("ToToolDefinition") => IsConflictError(ret.err, toolDef)
        /\ After("ValidateYAMLToolDefinition") => ~ret.err.isNil

\* C7 (amended): for a definition with operations, if a name is declared with
\* two different types anywhere among the base list and the operations'
\* lists, ToToolDefinition fails, and fails with a conflicting-types error
\* naming both types whenever the tool name and description are non-empty and
\* no parameter has an empty name; ValidateYAMLToolDefinition rejects the
\* definition whatever order the operations map is iterated in.
C7_ConflictingTypesRejected ==
    HasConflict(toolDef) =>
        /\ (After("ToToolDefinition") /\ HasOperations(toolDef)) =>
            /\ ~ret.err.isNil
            /\ (toolDef.Name # "" /\ toolDef.Description # ""
                    /\ "" \notin DeclaredNames(toolDef))
                => IsConflictError(ret.err, toolDef)
        /\ After("ValidateYAMLToolDefinition") => ~ret.err.isNil

\* two operations declare one name with different types, the base list does
\* not declare it, and ToToolDefinition has reported the conflict
C7_Witness ==
    /\ After("ToToolDefinition")
    /\ HasOperations(toolDef)
    /\ \E pq \in ConflictingPairs(toolDef) :
          pq[1].Name \notin {p.Name : p \in Range(toolDef.Parameters)}
    /\ IsConflictError(ret.err, toolDef)

\* the same, ValidateYAMLToolDefinition having rejected the definition with
\* the conflicting-types error
C7_WitnessValidation ==
    /\ After("ValidateYAMLToolDefinition")
    /\ HasOperations(toolDef)
    /\ \E pq \in ConflictingPairs(toolDef) :
          pq[1].Name \notin {p.Name : p \in Range(toolDef.Parameters)}
    /\ IsConflictError(ret.err, toolDef)

\* the keys of the operations map in ascending order, each once
AscendingKeys(operations) ==
    CHOOSE keys \in [1..Cardinality(DOMAIN operations) -> DOMAIN operations] :
        \A i, j \in DOMAIN keys : i < j => StringLess(keys[i], keys[j])

\* the declaration of "operation" that the compiler keeps: the first one of
\* the base list, else the first one of the operations' lists, the operations
\* taken in ascending order of their names
RECURSIVE ListsInOrder(_, _, _)
ListsInOrder(operations, keys, i) ==
    IF i > Len(keys) THEN <<>>
    ELSE operations[keys[i]].Parameters \o ListsInOrder(operations, keys, i + 1)

OperationDeclarations(def) ==
    SelectSeq(def.Parameters
              \o ListsInOrder(def.Operations, AscendingKeys(def.Operations), 1),
              LAMBDA p : p.Name = "operation")

OperationParameter(def) == OperationDeclarations(def)[1]

CompiledOperationProperty == Schema["properties"]["operation"]

EnumIs(list) ==
    /\ "enum" \in DOMAIN CompiledOperationProperty
    /\ CompiledOperationProperty["enum"] = list

\* C8 as stated: when operations are declared and the operation parameter
\* declares no enum, the enum of the compiled operation property is the list
\* of operations-map keys in ascending order; when it declares one, the
\* compiled enum is the declared list.
C8_AsStated ==
    CompiledWithOperations =>
        IF Len(OperationParameter(toolDef).Enum) = 0
        THEN EnumIs(AscendingKeys(toolDef.Operations))
        ELSE EnumIs(OperationParameter(toolDef).Enum)

\* C8 (amended): when operations are declared and the operation parameter is
\* declared with type string or enum, then if it declares no enum the enum of
\* the compiled operation property is the list of operations-map keys in
\* ascending order, each once, and if it declares one the compiled enum is
\* the declared list unchanged; for an operation parameter of any other
\* type the compiled property carries no enum.
C8_OperationEnum ==
    CompiledWithOperations =>
        IF OperationParameter(toolDef).Type \notin {"string", "enum"}
        THEN "enum" \notin DOMAIN CompiledOperationProperty
        ELSE IF Len(OperationParameter(toolDef).Enum) = 0
        THEN EnumIs(AscendingKeys(toolDef.Operations))
        ELSE EnumIs(OperationParameter(toolDef).Enum)

\* an enum was derived from two or more operation names
C8_Witness ==
    /\ CompiledWithOperations
    /\ OperationParameter(toolDef).Type = "string"
    /\ Len(OperationParameter(toolDef).Enum) = 0
    /\ Cardinality(DOMAIN toolDef.Operations) >= 2
    /\ EnumIs(AscendingKeys(toolDef.Operations))

\* an explicit enum that is not in ascending order was kept as declared
C8_WitnessExplicit ==
    /\ CompiledWithOperations
    /\ OperationParameter(toolDef).Enum = <<"other", "echo">>
    /\ EnumIs(<<"other", "echo">>)

\* an operation parameter of type enum that declares no values has got the
\* operation names as its enum
C8_WitnessEnumType ==
    /\ CompiledWithOperations
    /\ OperationParameter(toolDef) = opEnumType
    /\ EnumIs(AscendingKeys(toolDef.Operations))

\* an operation parameter of type integer was compiled to a property without
\* an enum
C8_WitnessOtherType ==
    /\ CompiledWithOperations
    /\ OperationParameter(toolDef).Type = "integer"
    /\ "enum" \notin DOMAIN CompiledOperationProperty

\* the names of the base parameters marked required, in declaration order
BaseRequiredNames(def) ==
    LET required == SelectSeq(def.Parameters, LAMBDA p : p.Required)
    IN  [i \in 1..Len(required) |-> required[i].Name]

\* C9: for an operation-style definition the compiled schema's required list
\* is the base parameters marked required, in declaration order, with
\* "operation" appended if not already there, so a parameter marked required
\* only in an operation's list is never in it; in flat mode required is the
\* names marked required, in declaration order, and is omitted when there are
\* none.
C9_RequiredList ==
    /\ CompiledWithOperations =>
        /\ "required" \in DOMAIN Schema
        /\ Schema["required"] =
              IF "operation" \in Range(BaseRequiredNames(toolDef))
              THEN BaseRequiredNames(toolDef)
              ELSE Append(BaseRequiredNames(toolDef), "operation")
        /\ \A n \in Range(Schema["required"]) :
              n = "operation" \/ \E p \in Range(toolDef.Parameters) :
                                    p.Name = n /\ p.Required
    /\ CompiledFlat =>
        IF BaseRequiredNames(toolDef) = <<>>
        THEN "required" \notin DOMAIN Schema
        ELSE /\ "required" \in DOMAIN Schema
             /\ Schema["required"] = BaseRequiredNames(toolDef)

\* a compiled operation-style schema whose required list holds a base
\* parameter besides "operation" and leaves out a parameter that only an
\* operation requires
C9_Witness ==
    /\ CompiledWithOperations
    /\ Len(Schema["required"]) >= 2
    /\ \E o \in DOMAIN toolDef.Operations :
          \E p \in Range(toolDef.Operations[o].Parameters) :
              p.Required /\ p.Name \notin Range(Schema["required"])

\* a compiled flat schema with no required list, and one with two names
C9_WitnessFlatNone ==
    CompiledFlat /\ Len(toolDef.Parameters) > 0 /\ "required" \notin DOMAIN Schema
C9_WitnessFlatTwo ==
    CompiledFlat /\ "required" \in DOMAIN Schema /\ Len(Schema["required"]) = 2

\* the definition with the enum of its base "operation" parameter replaced
WithOperationEnum(def, enum) ==
    LET named == {i \in DOMAIN def.Parameters : def.Parameters[i].Name = "operation"}
        first == CHOOSE i \in named : \A j \in named : i <= j
    IN  [def EXCEPT !.Parameters[first].Enum = enum]

HasBaseOperation(def) == \E p \in Range(def.Parameters) : p.Name = "operation"

\* valid apart from the enum: accepted once the enum lists every operation
OtherwiseValid(def) ==
    NilError \in ValidateYAMLToolDefinition(
                    WithOperationEnum(def, AscendingKeys(def.Operations)))

OmitsAnOperation(def) ==
    /\ Len(BaseOperationEnum(def)) > 0
    /\ \E n \in DOMAIN def.Operations : n \notin Range(BaseOperationEnum(def))

\* C10: ValidateYAMLToolDefinition rejects every definition whose operation
\* parameter declares a non-empty enum that omits a key of the operations
\* map, and accepts a definition whose operation parameter declares no enum
\* and that is otherwise valid.
C10_ExplicitEnumMustCoverOperations ==
    (After("ValidateYAMLToolDefinition") /\ HasOperations(toolDef)
        /\ HasBaseOperation(toolDef)) =>
        /\ OmitsAnOperation(toolDef) => ~ret.err.isNil
        /\ (Len(BaseOperationEnum(toolDef)) = 0 /\ OtherwiseValid(toolDef))
            => ret.err.isNil

\* a definition that is valid apart from its enum, which omits an operation,
\* has been rejected
C10_Witness ==
    /\ After("ValidateYAMLToolDefinition")
    /\ HasOperations(toolDef)
    /\ HasBaseOperation(toolDef)
    /\ OmitsAnOperation(toolDef)
    /\ OtherwiseValid(toolDef)
    /\ ~ret.err.isNil

\* a definition with two operations and no enum has been accepted
C10_WitnessNoEnum ==
    /\ After("ValidateYAMLToolDefinition")
    /\ Cardinality(DOMAIN toolDef.Operations) >= 2
    /\ HasBaseOperation(toolDef)
    /\ Len(BaseOperationEnum(toolDef)) = 0
    /\ ret.err.isNil

\* C11 as stated: for a definition with a non-empty operations map whose base
\* list has no parameter named "operation", both ValidateYAMLToolDefinition
\* and ToToolDefinition return an error, whatever the operations' own lists
\* contain.
C11_AsStated ==
    (HasOperations(toolDef) /\ ~HasBaseOperation(toolDef)) =>
        /\ After("ValidateYAMLToolDefinition") => ~ret.err.isNil
        /\ After("ToToolDefinition") => ~ret.err.isNil

\* two positions of the base list hold the same name
HasDuplicateBaseName(def) ==
    /\ ~def.isNil
    /\ \E i, j \in DOMAIN def.Parameters :
          i # j /\ def.Parameters[i].Name = def.Parameters[j].Name

\* C12 as stated: ValidateYAMLToolDefinition rejects every definition whose
\* base parameter list holds two parameters with the same name.
C12_AsStated ==
    (After("ValidateYAMLToolDefinition") /\ HasDuplicateBaseName(toolDef))
        => ~ret.err.isNil

----------------------------------------------------------------------------
(***************************************************************************)
(* Properties of file-type acceptance.                                     *)
(***************************************************************************)
AfterFile(f) == fileCall = f

\* equal up to the case of the ASCII letters
SameIgnoringCase(a, b) ==
    /\ Len(a) = Len(b)
    /\ \A i \in 1..Len(a) :
          \/ a[i] = b[i]
          \/ \E k \in DOMAIN UpperLetters :
                {a[i], b[i]} = {UpperLetters[k], LowerLetters[k]}

BeginsWithDot(e) == Len(e) > 0 /\ e[1] = "."
ContainsDot(filename) == \E i \in 1..Len(filename) : filename[i] = "."

\* the substring of the filename from a '.' that no '.' follows to the end
IsExtensionOf(t, filename) ==
    \E i \in 1..Len(filename) :
        /\ t = SubSeq(filename, i, Len(filename))
        /\ filename[i] = "."
        /\ \A j \in (i + 1)..Len(filename) : filename[j] # "."

EntryMatches(e, filename, mimeType) ==
    \/ /\ BeginsWithDot(e)
       /\ \E i \in 1..Len(filename) :
             LET t == SubSeq(filename, i, Len(filename))
             IN  IsExtensionOf(t, filename) /\ SameIgnoringCase(e, t)
    \/ /\ ~BeginsWithDot(e)
       /\ SameIgnoringCase(e, mimeType)

\* C13: IsFileTypeAccepted(L, filename, mime) is true exactly when some entry
\* of L either begins with '.' and equals, ignoring case, the substring of
\* filename from its last '.' to the end, or does not begin with '.' and
\* equals mime ignoring case; so it is false whenever L is empty, and a
\* dot-prefixed entry never matches a filename without a '.'.
C13_AcceptedIffAnEntryMatches ==
    AfterFile("IsFileTypeAccepted") =>
        /\ fileRet =
             (\E i \in 1..Len(fileArgs.acceptedTypes) :
                 EntryMatches(fileArgs.acceptedTypes[i], fileArgs.filename,
                              fileArgs.mimeType))
        /\ Len(fileArgs.acceptedTypes) = 0 => fileRet = FALSE
        /\ (/\ ~ContainsDot(fileArgs.filename)
            /\ \A i \in 1..Len(fileArgs.acceptedTypes) :
                  BeginsWithDot(fileArgs.acceptedTypes[i]))
           => fileRet = FALSE

\* a filename with two dots was accepted by its extension alone, the entry
\* and the extension differing in case
C13_Witness ==
    /\ AfterFile("IsFileTypeAccepted")
    /\ fileRet = TRUE
    /\ fileArgs.acceptedTypes = << <<".", "w">> >>
    /\ fileArgs.filename = <<".", ".", "W">>

\* a file was accepted by its media type alone, differing in case
C13_WitnessMediaType ==
    /\ AfterFile("IsFileTypeAccepted")
    /\ fileRet = TRUE
    /\ fileArgs.acceptedTypes = << <<".", "w">>, <<"W", ".">> >>
    /\ fileArgs.filename = <<"w">>
    /\ fileArgs.mimeType = <<"w", ".">>

\* a dot-prefixed entry equal to the media type did not accept the file
C13_WitnessRejected ==
    /\ AfterFile("IsFileTypeAccepted")
    /\ fileRet = FALSE
    /\ fileArgs.acceptedTypes = << <<".", "w">> >>
    /\ fileArgs.filename = <<"w">>
    /\ fileArgs.mimeType = <<".", "w">>

\* C14: FilterFilesByAcceptedTypes(files, L) returns exactly the files f for
\* which IsFileTypeAccepted(L, f.Name, f.Type) is true, in their original
\* order and each unchanged; for an empty L it returns no files.
C14_FilterKeepsExactlyTheAccepted ==
    AfterFile("FilterFilesByAcceptedTypes") =>
        LET files == fileArgs.files
            kept == {i \in 1..Len(files) :
                        IsFileTypeAccepted(fileArgs.acceptedTypes,
                                           files[i].Name, files[i].Type)}
        IN  /\ Len(fileRet) = Cardinality(kept)
            /\ \E pos \in [1..Len(fileRet) -> kept] :
                  /\ \A a, b \in 1..Len(fileRet) : a < b => pos[a] < pos[b]
                  /\ \A a \in 1..Len(fileRet) : fileRet[a] = files[pos[a]]
            /\ Len(fileArgs.acceptedTypes) = 0 => fileRet = <<>>

\* of three attachments the filter kept the first and the last, one by
\* its extension and one by its media type, and dropped the middle one
C14_Witness ==
    /\ AfterFile("FilterFilesByAcceptedTypes")
    /\ Len(fileArgs.files) = 3
    /\ Len(fileRet) = 2
    /\ fileRet[1] = fileArgs.files[1]
    /\ fileRet[2] = fileArgs.files[3]
    /\ fileRet[1].Name # fileRet[2].Name
    /\ fileRet[1].Type # fileRet[2].Type

\* a non-empty attachment list was filtered by the empty accepted list
C14_WitnessEmptyList ==
    /\ AfterFile("FilterFilesByAcceptedTypes")
    /\ Len(fileArgs.files) > 0
    /\ fileArgs.acceptedTypes = <<>>
    /\ fileRet = <<>>

----------------------------------------------------------------------------
(***************************************************************************)
(* Properties of the RPC layer.                                            *)
(***************************************************************************)
AfterRpc(method) == rpcCall = method

\* the optional dispatcher methods and the interface each one asks for
OptionalMethods ==
    [GetVersion |-> "VersionedTool",
     SetAgentContext |-> "AgentAwareTool",
     GetDefaultSettings |-> "DefaultSettingsProvider",
     GetRequiredConfig |-> "InitializationProvider",
     ValidateConfig |-> "InitializationProvider",
     InitializeWithConfig |-> "InitializationProvider",
     GetMetadata |-> "MetadataProvider",
     GetCompatibilityInfo |-> "PluginCompatibility",
     GetWebPages |-> "WebPageProvider",
     ServeWebPage |-> "WebPageProvider",
     GetOperations |-> "OperationsProvider",
     AcceptsFiles |-> "FileAttachmentHandler"]

ResponseError == IF "Error" \in DOMAIN rpcRet.resp THEN rpcRet.resp.Error ELSE ""

\* C15 as stated: for every optional-capability method of the dispatcher,
\* when the plugin does not implement the capability the transport error is
\* nil and the response's error field is empty.
C15_AsStated ==
    \A m \in DOMAIN OptionalMethods :
        (AfterRpc("server." \o m) /\ ~Implements(impl, OptionalMethods[m])) =>
            /\ rpcRet.err.isNil
            /\ ResponseError = ""

\* the handler outcome that a plain Call with the same arguments produces
PlainOutcome == impl.call[rpcArgs.ArgsJson]

\* C16: for a plugin that does not implement FileAttachmentHandler, the
\* dispatcher's CallWithFiles invokes the plugin's plain Call exactly once
\* with the same args and returns the response that the dispatcher's Call
\* would return, for every file list, without signalling that file handling
\* is absent.
C16_CallWithFilesFallsBackToCall ==
    (AfterRpc("server.CallWithFiles")
        /\ ~Implements(impl, "FileAttachmentHandler")) =>
        LET plain == ServerCall(impl, [ArgsJson |-> rpcArgs.ArgsJson])
        IN  /\ invoked = <<Invocation("Call", rpcArgs.ArgsJson, <<>>)>>
            /\ rpcRet = [resp |-> plain.resp, err |-> plain.err]
            /\ rpcRet.err.isNil
            /\ PlainOutcome.err.isNil => rpcRet.resp.Error = ""

\* files were attached for a plugin without file handling and the plain
\* handler's result came back
C16_Witness ==
    /\ AfterRpc("server.CallWithFiles")
    /\ ~Implements(impl, "FileAttachmentHandler")
    /\ Len(rpcArgs.Files) > 0
    /\ rpcRet.resp.ResultJson = "done"
    /\ impl.call[rpcArgs.ArgsJson] # impl.callWithFiles[rpcArgs.ArgsJson]

\* the handler outcome behind the last Call or CallWithFiles
HandlerOutcome ==
    IF AfterRpc("server.CallWithFiles") /\ Implements(impl, "FileAttachmentHandler")
    THEN impl.callWithFiles[rpcArgs.ArgsJson]
    ELSE impl.call[rpcArgs.ArgsJson]

\* C17: the dispatcher's Call and CallWithFiles always return a nil
\* transport error; when the handler returns an error the response carries
\* its message in Error and an empty ResultJson, and when it succeeds the
\* response carries its result in ResultJson and an empty Error.
C17_HandlerErrorInResponse ==
    (AfterRpc("server.Call") \/ AfterRpc("server.CallWithFiles")) =>
        /\ rpcRet.err.isNil
        /\ IF ~HandlerOutcome.err.isNil
           THEN /\ rpcRet.resp.Error = HandlerOutcome.err.msg
                /\ rpcRet.resp.ResultJson = ""
           ELSE /\ rpcRet.resp.ResultJson = HandlerOutcome.result
                /\ rpcRet.resp.Error = ""

\* a handler returned a result together with an error, and only the message
\* came back
C17_Witness ==
    /\ AfterRpc("server.Call")
    /\ HandlerOutcome = Outcome("partial", Errorf("boom"))
    /\ rpcRet = [resp |-> CallResponse("", "boom"), err |-> NilError]

\* the same for a file handler that failed
C17_WitnessFiles ==
    /\ AfterRpc("server.CallWithFiles")
    /\ Implements(impl, "FileAttachmentHandler")
    /\ rpcRet = [resp |-> CallResponse("", "bad file"), err |-> NilError]

\* C18 as stated: through dispatcher and proxy with a working transport, the
\* proxy's Call returns a non-nil error if and only if the handler returned
\* a non-nil error, whatever its message, and otherwise returns exactly the
\* handler's result; with a failing transport it returns the transport
\* error.
C18_AsStated ==
    AfterRpc("client.Call") =>
        IF rpcArgs.transportUp
        THEN /\ ~rpcRet.err.isNil <=> ~PlainOutcome.err.isNil
             /\ PlainOutcome.err.isNil => rpcRet.resp = PlainOutcome.result
        ELSE rpcRet.err = TransportError

\* C19: the proxy's Definition, Version, MinAgentVersion, MaxAgentVersion and
\* APIVersion never surface a failure: on a transport error Definition
\* returns the empty Tool, Version returns "unknown" and the compatibility
\* lookups return the empty string; and when the plugin is not a
\* VersionedTool the dispatcher's GetVersion answers "unknown".
C19_LookupsNeverFail ==
    /\ (AfterRpc("client.Definition") /\ ~rpcArgs.transportUp)
          => rpcRet = [resp |-> EmptyToolValue, err |-> NilError]
    /\ (AfterRpc("client.Version") /\ ~rpcArgs.transportUp)
          => rpcRet = [resp |-> "unknown", err |-> NilError]
    /\ \A m \in {"client.MinAgentVersion", "client.MaxAgentVersion",
                 "client.APIVersion"} :
          (AfterRpc(m) /\ ~rpcArgs.transportUp)
              => rpcRet = [resp |-> "", err |-> NilError]
    /\ \A m \in {"client.Definition", "client.Version", "client.MinAgentVersion",
                 "client.MaxAgentVersion", "client.APIVersion"} :
          AfterRpc(m) => rpcRet.err.isNil
    /\ (AfterRpc("server.GetVersion") /\ ~Implements(impl, "VersionedTool"))
          => rpcRet = [resp |-> [Version |-> "unknown"], err |-> NilError]
    /\ (AfterRpc("client.Version") /\ rpcArgs.transportUp
            /\ ~Implements(impl, "VersionedTool"))
          => rpcRet.resp = "unknown"

\* Version was asked of a versioned plugin over a failing transport
C19_Witness ==
    /\ AfterRpc("client.Version")
    /\ ~rpcArgs.transportUp
    /\ Implements(impl, "VersionedTool")
    /\ rpcRet.resp = "unknown"

\* Definition was asked over a working transport and the dispatcher could
\* not marshal the parameters
C19_WitnessDefinition ==
    /\ AfterRpc("client.Definition")
    /\ rpcArgs.transportUp
    /\ impl.definition.Parameters = "unmarshalable"
    /\ rpcRet.resp = EmptyToolValue

\* the dispatcher answered GetVersion for a plugin without a version
C19_WitnessServer ==
    /\ AfterRpc("server.GetVersion")
    /\ ~Implements(impl, "VersionedTool")
    /\ rpcRet.resp.Version = "unknown"

\* C20 as stated: a dispatcher call leaves every object the plugin owns,
\* the PluginMetadata returned by its GetMetadata included, with the field
\* values it had before, apart from what the plugin's own methods change
\* (SetAgentContext stores the agent context).
C20_AsStated ==
    [][(rpcCall = "none" /\ rpcCall' # "none") =>
          impl' = [impl EXCEPT !.agentContext = impl'.agentContext]]_vars

\* the plugin's SetAgentContext was invoked while the call was served
ReceivedAgentContext ==
    \E i \in DOMAIN invoked : invoked[i].method = "SetAgentContext"

\* C27 as stated: when the host calls SetAgentContext on the client proxy and
\* the plugin implements AgentAwareTool, the AgentContext the plugin receives
\* equals the AgentContext the host passed in every field: Name, ConfigPath,
\* SettingsPath, AgentDir and CurrentLocation.
C27_AsStated ==
    (AfterRpc("client.SetAgentContext") /\ Implements(impl, "AgentAwareTool")
        /\ ReceivedAgentContext)
        => impl.agentContext = rpcArgs.ctx

----------------------------------------------------------------------------
(***************************************************************************)
(* Validation against compilation.                                         *)
(***************************************************************************)
Validated(def) == NilError \in ValidateYAMLToolDefinition(def)

\* C28: every tool definition accepted by ValidateYAMLToolDefinition is
\* compiled by ToToolDefinition without error, in flat mode and in operation
\* mode.
C28_ValidatedDefinitionsCompile ==
    (After("ToToolDefinition") /\ Validated(toolDef)) => ret.err.isNil

\* a validated definition with operations, one of them with parameters of
\* its own, has been compiled
C28_Witness ==
    /\ After("ToToolDefinition")
    /\ Validated(toolDef)
    /\ HasOperations(toolDef)
    /\ \E n \in DOMAIN toolDef.Operations :
          Len(toolDef.Operations[n].Parameters) > 0
    /\ ret.err.isNil
    /\ ret.tool.Name = toolDef.Name

\* a validated flat definition has been compiled
C28_WitnessFlat ==
    /\ After("ToToolDefinition")
    /\ Validated(toolDef)
    /\ IsFlat(toolDef)
    /\ Len(toolDef.Parameters) = MaxParams
    /\ ret.err.isNil

\* a definition that validation rejects has failed to compile
C28_WitnessRejected ==
    /\ After("ToToolDefinition")
    /\ ~Validated(toolDef)
    /\ ~ret.err.isNil

----------------------------------------------------------------------------
(***************************************************************************)
(* Properties of the config variable expander.                             *)
(***************************************************************************)
AfterExpand(f) == expandCall = f

Tilde == <<"~", "/">>

\* what a placeholder stands for on a host
PlaceholderValue(t, h) ==
    IF t = TemplateOS THEN h.GOOS
    ELSE IF t = TemplateARCH THEN h.GOARCH
    ELSE h.homeDir

\* s with every occurrence of a placeholder replaced by what it stands for,
\* in one pass from the left
RECURSIVE Substituted(_, _)
Substituted(s, h) ==
    LET here == {t \in {TemplateOS, TemplateARCH, TemplateUSER_HOME} :
                    HasPrefix(s, t)}
    IN  IF Len(s) = 0 THEN s
        ELSE IF here # {}
        THEN LET t == CHOOSE t \in here : TRUE
             IN  PlaceholderValue(t, h)
                    \o Substituted(SubSeq(s, Len(t) + 1, Len(s)), h)
        ELSE <<s[1]>> \o Substituted(Tail(s), h)

HomeResolvable(h) == h.homeDir # <<>>

\* C21: expandTemplates returns a non-string input unchanged; for a string
\* it first replaces every occurrence of {{OS}}, {{ARCH}} and {{USER_HOME}}
\* by the host OS identifier, the CPU architecture identifier and the home
\* directory, and only afterwards, if the substituted string starts with ~/
\* and the home directory is resolvable, replaces that leading ~/ by the
\* home directory joined with the rest; when the home directory is not
\* resolvable a leading ~/ is left as it is.
C21_PlaceholdersThenTilde ==
    AfterExpand("expandTemplates") =>
        LET value == expandArgs.value
            substituted == Substituted(value.str, hostState)
        IN  /\ value.kind # "string" => expandRet.value = value
            /\ value.kind = "string" =>
                /\ expandRet.replaced = StringValue(substituted)
                /\ (HasPrefix(substituted, Tilde) /\ HomeResolvable(hostState))
                    => expandRet.tilded
                         = StringValue(Join(hostState.homeDir,
                                            SubSeq(substituted, 3, Len(substituted))))
                /\ ~(HasPrefix(substituted, Tilde) /\ HomeResolvable(hostState))
                    => expandRet.tilded = StringValue(substituted)
                /\ ~Contains(expandRet.tilded.str, <<"%">>)
                    => expandRet.value = expandRet.tilded
                /\ (HasPrefix(substituted, Tilde) /\ ~HomeResolvable(hostState))
                    => HasPrefix(expandRet.value.str, Tilde)

\* a string with a leading ~/ and a home-directory placeholder has been
\* expanded on a host whose home directory is resolvable: the placeholder
\* was replaced before the path was joined and cleaned
C21_Witness ==
    /\ AfterExpand("expandTemplates")
    /\ expandArgs.value = StringValue(Tilde \o TemplateUSER_HOME)
    /\ hostState.homeDir = <<"/", "h">>
    /\ expandRet.replaced = StringValue(<<"~", "/", "/", "h">>)
    /\ expandRet.value = StringValue(<<"/", "h", "/", "h">>)

\* the home directory is not resolvable and the leading ~/ has been kept
C21_WitnessUnresolvable ==
    /\ AfterExpand("expandTemplates")
    /\ ~HomeResolvable(hostState)
    /\ expandArgs.value = StringValue(Tilde \o TemplateOS)
    /\ expandRet.value = StringValue(Tilde \o hostState.GOOS)

\* a non-string has been returned unchanged
C21_WitnessNonString ==
    /\ AfterExpand("expandTemplates")
    /\ expandArgs.value = IntValue(42)
    /\ expandRet.value = IntValue(42)

\* %NAME% for a variable name
Percent(name) == <<"%">> \o name \o <<"%">>

\* s with %NAME% replaced by the value of NAME, for every variable set in
\* the environment
RECURSIVE PercentExpanded(_, _, _)
PercentExpanded(s, env, names) ==
    IF names = {} THEN s
    ELSE LET n == CHOOSE n \in names : TRUE
         IN  PercentExpanded(ReplaceAll(s, Percent(n), env[n]), env,
                             names \ {n})

\* C22 as stated: when the string that results from placeholder and tilde
\* expansion contains an environment-variable-style placeholder of the form
\* %NAME%, expandTemplates replaces it by the value of the process
\* environment variable NAME.
C22_AsStated ==
    (AfterExpand("expandTemplates") /\ expandArgs.value.kind = "string") =>
        \A name \in DOMAIN hostState.env :
            Contains(expandRet.tilded.str, Percent(name)) =>
                /\ ~Contains(expandRet.value.str, Percent(name))
                /\ expandRet.value.str
                     = PercentExpanded(expandRet.tilded.str, hostState.env,
                                       DOMAIN hostState.env)

\* the default a variable declares for a host: its platform_defaults entry
\* for the host's OS when there is one, its default_value otherwise
DeclaredDefault(yamlVar, h) ==
    IF h.GOOS \in DOMAIN yamlVar.PlatformDefaults
    THEN yamlVar.PlatformDefaults[h.GOOS]
    ELSE yamlVar.DefaultValue

\* C23: for every config variable, ToConfigVariables yields as DefaultValue
\* the expanded platform_defaults entry for the current OS when such an
\* entry exists, replacing the generic default entirely, and the expanded
\* generic default_value otherwise; the output has one ConfigVariable per
\* declared variable, in declaration order.
C23_PlatformDefaultSupersedes ==
    AfterExpand("ToConfigVariables") =>
        LET variables == expandArgs.config.Config.Variables
            result == expandRet.value
        IN  /\ Len(result) = Len(variables)
            /\ \A i \in DOMAIN variables :
                  /\ result[i].Key = variables[i].Key
                  /\ result[i].DefaultValue
                        \in expandTemplates(DeclaredDefault(variables[i], hostState),
                                            hostState)

\* two variables have been converted, the first with an entry for the
\* current OS that expands to something else than its generic default, the
\* second without one
C23_Witness ==
    /\ AfterExpand("ToConfigVariables")
    /\ Len(expandRet.value) = 2
    /\ LET variables == expandArgs.config.Config.Variables
       IN  /\ hostState.GOOS \in DOMAIN variables[1].PlatformDefaults
           /\ expandRet.value[1].DefaultValue
                \notin expandTemplates(variables[1].DefaultValue, hostState)
           /\ expandRet.value[1].DefaultValue.kind = "string"
           /\ hostState.GOOS \notin DOMAIN variables[2].PlatformDefaults
           /\ DOMAIN variables[2].PlatformDefaults # {}
           /\ variables[1].Key # variables[2].Key

\* an entry that holds no value has replaced a generic default that does
C23_WitnessNilEntry ==
    /\ AfterExpand("ToConfigVariables")
    /\ Len(expandRet.value) = 1
    /\ expandArgs.config.Config.Variables[1].DefaultValue.kind = "string"
    /\ expandRet.value[1].DefaultValue = NilValue

----------------------------------------------------------------------------
(***************************************************************************)
(* Properties of the settings manager.                                     *)
(***************************************************************************)
AfterSettings(method) == settingsCall = method

Succeeded == settingsRet.err.isNil /\ ~settingsRet.panicked

\* what Get(key) returns on a manager
Got(sm, key) == ManagerGet(sm, disk, key).value

\* the managers a program can create now for the file the manager writes
CreatedAfterwards ==
    {NewSettingsManager(agentDir, pluginName, disk, FALSE).sm :
        agentDir \in {d \in AgentDirs : d # ""},
        pluginName \in {n \in PluginNames :
                          n # "" /\ \E d \in AgentDirs :
                                      SettingsPath(d, n) = manager.filePath}}

\* what a value is after json.Marshal and json.Unmarshal
RoundTrip(v) == UnmarshalValue(MarshalValue(v))

\* the file holds the cache, nothing is unsaved and no temp file is left
Persisted ==
    /\ Exists(disk, manager.filePath)
    /\ disk[manager.filePath] = MarshalIndent(manager.cache).data
    /\ ~manager.dirty
    /\ ~Exists(disk, TempPath(manager.filePath))

\* C25 as stated: after Set(k, v) returns nil, Get(k) on the same manager
\* returns v and a manager created afterwards with the same agent directory
\* and plugin name returns v for k; after Delete(k) returns nil, Get(k)
\* returns nil on both; after any sequence of successful Set and Delete
\* calls the settings file on disk holds exactly the in-memory cache, the
\* dirty flag is false and no .tmp file remains.
C25_AsStated ==
    /\ (AfterSettings("Set") /\ Succeeded) =>
          /\ Got(manager, settingsArgs.key) = settingsArgs.value
          /\ \A created \in CreatedAfterwards :
                ~created.isNil /\ Got(created, settingsArgs.key) = settingsArgs.value
          /\ Persisted
    /\ (AfterSettings("Delete") /\ Succeeded) =>
          /\ Got(manager, settingsArgs.key) = Nil
          /\ \A created \in CreatedAfterwards :
                ~created.isNil /\ Got(created, settingsArgs.key) = Nil
          /\ Persisted

\* C25, amended: as above, except that a manager created afterwards returns
\* for k what v is after its JSON round trip (an int comes back as a
\* float64).
C25_SetGetPersist ==
    /\ (AfterSettings("Set") /\ Succeeded) =>
          /\ Got(manager, settingsArgs.key) = settingsArgs.value
          /\ \A created \in CreatedAfterwards :
                /\ ~created.isNil
                /\ Got(created, settingsArgs.key) = RoundTrip(settingsArgs.value)
          /\ Persisted
    /\ (AfterSettings("Delete") /\ Succeeded) =>
          /\ Got(manager, settingsArgs.key) = Nil
          /\ \A created \in CreatedAfterwards :
                ~created.isNil /\ Got(created, settingsArgs.key) = Nil
          /\ Persisted

\* an int has been set next to another key and saved; a manager created now
\* returns it as a float64
C25_Witness ==
    /\ AfterSettings("Set")
    /\ Succeeded
    /\ settingsArgs.value = IntV(1)
    /\ Cardinality(DOMAIN manager.cache.entries) = 2
    /\ CreatedAfterwards # {}
    /\ \A created \in CreatedAfterwards :
          Got(created, settingsArgs.key) = Float64V(10)

\* a key that the file held has been deleted and the file rewritten, after
\* an earlier save had left a temp file behind
C25_WitnessDelete ==
    /\ AfterSettings("Delete")
    /\ Succeeded
    /\ settingsArgs.key = "k"
    /\ DOMAIN manager.cache.entries = {"j"}
    /\ disk[manager.filePath].kind = "object"
    /\ DOMAIN disk[manager.filePath].members = {"j"}

\* the call could not write the temp file or could not rename it
PersistFailed ==
    /\ ~settingsRet.err.isNil
    /\ ~settingsRet.panicked
    /\ MarshalIndent(manager.cache).err.isNil

\* the document at path, <<>> when there is none
FileAt(files, path) == IF Exists(files, path) THEN <<files[path]>> ELSE <<>>

\* C29: when a settings-manager Set or Delete fails to persist (the
\* temp-file write or the rename fails), the call returns the error but the
\* in-memory change is not rolled back: Get already returns the new value
\* (or nil after Delete), the dirty flag stays true, the previous settings
\* file on disk is left intact, and a later Save, Set or Delete retries
\* writing the whole cache.
C29_FailedSaveKeepsChange ==
    [][/\ (settingsCall = "none" /\ settingsCall' \in {"Set", "Delete"}
            /\ PersistFailed') =>
              /\ settingsCall' = "Set" =>
                    ManagerGet(manager', disk', settingsArgs'.key).value
                        = settingsArgs'.value
              /\ settingsCall' = "Delete" =>
                    ManagerGet(manager', disk', settingsArgs'.key).value = Nil
              /\ manager'.dirty
              /\ FileAt(disk', manager'.filePath) = FileAt(disk, manager.filePath)
       /\ (settingsCall = "none" /\ manager.dirty
            /\ settingsCall' \in {"Save", "Set", "Delete"}
            /\ settingsRet'.err.isNil /\ ~settingsRet'.panicked) =>
              /\ ~manager'.dirty
              /\ FileAt(disk', manager'.filePath)
                    = <<MarshalIndent(manager'.cache).data>>
      ]_vars

\* a Set whose rename failed has returned the error: the value is in the
\* cache, the manager is dirty and the file still holds what it held
C29_Witness ==
    /\ AfterSettings("Set")
    /\ PersistFailed
    /\ settingsArgs.fault = "rename"
    /\ Got(manager, settingsArgs.key) = settingsArgs.value
    /\ manager.dirty
    /\ Exists(disk, manager.filePath)
    /\ disk[manager.filePath] # MarshalIndent(manager.cache).data

\* a Save has written a cache that an earlier failure had left unsaved,
\* over the temp file that failure had left behind
C29_WitnessRetry ==
    /\ AfterSettings("Save")
    /\ Succeeded
    /\ settingsArgs.fault = "none"
    /\ Persisted
    /\ DOMAIN manager.cache.entries = {"k", "j"}

\* the cache a successful Load leaves for what the file holds
LoadedFrom(files, path) ==
    IF Exists(files, path) THEN Unmarshal(files[path]).settings.entries
    ELSE EmptyMap

\* C30 as stated: after NewSettingsManager or Load has returned without
\* error, for any content of the settings file (absent, a JSON object, or
\* another syntactically valid JSON value such as null), the in-memory cache
\* is a usable map: every later Get, GetAll, Set and Delete completes
\* without a runtime panic, and Load discards all in-memory values in favour
\* of the file's content.
C30_AsStated ==
    /\ settingsCall \in {"Get", "GetAll", "Set", "Delete"}
          => ~settingsRet.panicked
    /\ (AfterSettings("Load") /\ Succeeded) =>
          manager.cache.entries = LoadedFrom(disk, manager.filePath)

----------------------------------------------------------------------------
(***************************************************************************)
(* Properties of BasePlugin.Settings.                                      *)
(***************************************************************************)

\* goroutine g has got a value back from its last call of Settings()
Returned24(g) ==
    /\ frames[g].pc = "idle"
    /\ frames[g].returned
    /\ ~frames[g].panicked

\* once a call has returned a non-nil settings manager every call made
\* later returns that same instance, and at most one manager is ever
\* created and published
OneManager ==
    /\ \A g \in Goroutines :
          Returned24(g) /\ frames[g].seen # {} =>
              frames[g].sm \in frames[g].seen
    /\ Len(heap) <= 1
    /\ Cardinality(history.returned) <= 1
    /\ basePlugin.settingsManager \in {0} \cup history.returned
            \cup {frames[g].sm : g \in Goroutines}

\* C24 as stated: BasePlugin.Settings() returns nil as long as the stored
\* agent context has an empty AgentDir; once a call has returned a non-nil
\* settings manager, every later call returns that same instance, under any
\* interleaving of concurrent Settings() calls and regardless of later
\* SetAgentContext calls with a different AgentDir; at most one manager is
\* ever created and published per BasePlugin.
C24_AsStated ==
    /\ \A g \in Goroutines :
          Returned24(g) /\ frames[g].emptyDir => frames[g].sm = 0
    /\ OneManager

\* C24, amended: BasePlugin.Settings() returns nil as long as the stored
\* agent context has an empty AgentDir and no settings manager has been
\* created yet; a manager that exists is returned whatever the stored
\* AgentDir is, the empty one included; once a call has returned a non-nil
\* settings manager, every later call returns that same instance, under any
\* interleaving of concurrent Settings() calls and regardless of later
\* SetAgentContext calls with a different AgentDir; at most one manager is
\* ever created and published per BasePlugin.
C24_OneSettingsManager ==
    /\ \A g \in Goroutines :
          Returned24(g) =>
              /\ frames[g].emptyDir /\ ~frames[g].existing => frames[g].sm = 0
              /\ ~history.dirWasSet => frames[g].sm = 0
              /\ frames[g].existing =>
                    frames[g].sm # 0 /\ frames[g].sm = basePlugin.settingsManager
    /\ OneManager

\* a call made after the manager was returned has returned that manager
\* although the stored AgentDir is another one by now
C24_Witness ==
    \E g \in Goroutines :
        /\ Returned24(g)
        /\ frames[g].seen = {1}
        /\ frames[g].sm = 1
        /\ heap[1].filePath = SettingsPath("/a", "p")
        /\ basePlugin.agentDir = "/b"
        /\ basePlugin.storing = <<>>

\* both cases of the empty AgentDir: one goroutine's call has returned nil,
\* the AgentDir empty and no manager created yet; the other goroutine's call,
\* made after the manager had been returned to it, has returned that manager
\* with the AgentDir empty again
C24_WitnessBoth ==
    \E g, h \in Goroutines :
        /\ Returned24(g) /\ Returned24(h)
        /\ frames[g].emptyDir /\ ~frames[g].existing /\ frames[g].sm = 0
        /\ frames[h].emptyDir /\ frames[h].existing /\ frames[h].sm = 1
        /\ frames[h].seen = {1}
        /\ basePlugin.agentDir = ""
        /\ basePlugin.storing = <<>>

\* a call has returned nil while no AgentDir had been stored
C24_WitnessNil ==
    \E g \in Goroutines :
        /\ Returned24(g)
        /\ ~history.dirWasSet
        /\ frames[g].sm = 0

\* a call has returned nil with the AgentDir empty again after a directory
\* had been stored, no manager having been created in between
C24_WitnessNilAgain ==
    \E g \in Goroutines :
        /\ Returned24(g)
        /\ history.dirWasSet
        /\ frames[g].emptyDir
        /\ frames[g].sm = 0
        /\ heap = <<>>

\* a call has returned the manager that existed although the stored
\* AgentDir was empty during the whole call
C24_WitnessEmptyDir ==
    \E g \in Goroutines :
        /\ Returned24(g)
        /\ frames[g].emptyDir
        /\ frames[g].existing
        /\ frames[g].sm = 1
        /\ basePlugin.agentDir = ""

\* two goroutines were in Settings() at once: one has created and returned
\* the manager, the other has waited for the mutex and returned the same
C24_WitnessConcurrent ==
    /\ \A g \in Goroutines :
          Returned24(g) /\ frames[g].seen = {} /\ frames[g].sm = 1
    /\ Len(heap) = 1

----------------------------------------------------------------------------
(***************************************************************************)
(* Properties of the TemplateRenderer.                                     *)
(***************************************************************************)

\* the keys stored in the cache since the last ClearCache: template names,
\* and layout:template for the calls with a layout
StoredNames == {key \in CacheKeys : activity[key].stored > 0}

\* the file of the name can be read and parsed
FileParses(name) ==
    /\ ReadFile(templateFS, name).err.isNil
    /\ Parse(name, ReadFile(templateFS, name).content).err.isNil

\* the files behind the cache key can be read and parsed
Parses(key) ==
    IF key \in TemplateNames THEN FileParses(key)
    ELSE \E pair \in LayoutPairs :
            /\ key = LayoutKey(pair[1], pair[2])
            /\ FileParses(pair[1])
            /\ FileParses(pair[2])

\* the cache holds what was parsed since the last ClearCache, a call that
\* failed holds an error and no template, and ClearCache leaves no entry
CacheIsWhatWasParsed ==
    /\ DOMAIN renderer.cache = StoredNames
    /\ \A name \in DOMAIN renderer.cache : Parses(name)
    /\ \A g \in Renderers :
          /\ renders[g].pc = "unlock" /\ ~renders[g].err.isNil =>
                ~Parses(renders[g].cacheKey)
          /\ renders[g].pc = "failed" => ~renders[g].err.isNil
          /\ renders[g].pc = "cleared" => renderer.cache = EmptyMap

\* C26 as stated: for a TemplateRenderer under any interleaving of
\* concurrent RenderTemplate and ClearCache calls, a template name is read
\* and parsed at most once between two ClearCache calls, the cache contains
\* exactly the names whose parse has succeeded since the last ClearCache (a
\* failed read or parse inserts nothing and returns an error), and
\* immediately after ClearCache the cache is empty.
C26_AsStated ==
    /\ \A name \in TemplateNames :
          activity[name].reads <= 1 /\ activity[name].parses <= 1
    /\ CacheIsWhatWasParsed

\* C26, amended: a template name is read and parsed successfully at most
\* once between two ClearCache calls, and a name that is in the cache is
\* not read again before the next ClearCache (a name whose read or parse
\* fails is read again by every call); the rest as stated. The same holds
\* of the layout:template keys of RenderTemplateWithLayout, which share the
\* cache.
C26_ParsedOncePerClear ==
    /\ \A name \in CacheKeys :
          /\ activity[name].stored <= 1
          /\ Parses(name) =>
                activity[name].reads <= 1 /\ activity[name].parses <= 1
          /\ name \in DOMAIN renderer.cache =>
                activity[name].reads = 1 /\ activity[name].parses = 1
    /\ CacheIsWhatWasParsed

\* three goroutines have asked for the same template and missed it under
\* the read lock; one has parsed and stored it, and the others have found
\* it at the double check or are waiting for the write lock
C26_Witness ==
    /\ \A g \in Renderers : renders[g].cacheKey = "a"
    /\ "a" \in DOMAIN renderer.cache
    /\ \E g, h, i \in Renderers :
          /\ renders[g].pc = "execute" /\ renders[g].tmpl = renderer.cache["a"]
          /\ renders[h].pc = "unlock" /\ renders[h].tmpl = renderer.cache["a"]
          /\ renders[i].pc = "lock"
          /\ g # h
    /\ activity["a"].reads = 1
    /\ activity["a"].parses = 1

\* a template that does not parse has been read and parsed twice, and the
\* cache holds the other name only
C26_WitnessFailing ==
    /\ activity["b"].reads = 2
    /\ activity["b"].parses = 2
    /\ activity["b"].stored = 0
    /\ DOMAIN renderer.cache = {"a"}

\* ClearCache has emptied a cache that held a template, while another
\* goroutine still holds the template it got before
C26_WitnessCleared ==
    \E g, h \in Renderers :
        /\ renders[g].pc = "cleared"
        /\ renderer.cache = EmptyMap
        /\ renders[h].pc = "execute"
        /\ renders[h].tmpl = Template("a", "valid")

=============================================================================
